---- MODULE Spec2Model ----
(***************************************************************************)
(* Model of the job dispatch and reconciliation engine of the extract      *)
(* balancer: JobsFactory.runJob, the two lanes (JobsGPU, JobsNoGPU) and    *)
(* the polling loop of JobsGPU.  Every action is one run-to-completion     *)
(* segment of the JavaScript code, from one `await` to the next.           *)
(***************************************************************************)
EXTENDS Integers, Sequences, FiniteSets, TLC

\* ------------------------------------------------------------------ bounds
\* number of runJob calls of one execution
MaxReq == 2
\* number of clock ticks of one execution
MaxTicks == 1
\* the captureFrame calls of a GIF capture that are in progress at a time
MaxCapturing == 2

Reqs == 1..MaxReq

\* ---------------------------------------------------------------- constants
\* the ceiling of the timeout sweep: `duration >= 60 * 60 * 1000`
HOUR_MS == 60 * 60 * 1000
\* the clock of the model advances by the ceiling
TickMs == HOUR_MS

JOB_QUEUE_FAILED == "JOB_QUEUE_FAILED"
JOB_EXECUTION_FAILED == "JOB_EXECUTION_FAILED"
\* the error string of JobsNoGPU.addJob's catch block
NOGPU_ERROR == "ERROR"

\* the two values of jobQueue in SubmitJobCommand / ListJobsCommand
QUEUE_ARN == "AWS_BATCH_GPU_JOB_QUEUE_ARN"
QUEUE_PRIORITY_ARN == "AWS_BATCH_GPU_JOB_QUEUE_PRIORITY_ARN"
\* jobDefinition and jobName of SubmitJobCommand
JOB_DEF_ARN == "AWS_BATCH_GPU_JOB_DEF_ARN"
JOB_NAME == "AWS_BATCH_JOB_NAME"

\* ------------------------------------------------------------- data values
\* JobResolution: data is <<>> (undefined) or <<JobResponse>>
Failure(e) == [type |-> "failure", error |-> e, data |-> <<>>]
Success(d) == [type |-> "success", error |-> "", data |-> <<d>>]

\* bytes of the artifacts the object store or the capture delegate may hold:
\* the signature of a PNG file, and bytes no file type is sniffed from
PngBytes == <<137, 80, 78, 71, 13, 10, 26, 10>>
RawBytes == <<1, 2>>
Buffers == {PngBytes, RawBytes}

\* content of features.json: two JSON documents and one that does not parse
FeatureTexts == {"{}", "{\"seed\":1}", "<html>"}

\* the pairs of objects (preview.png, features.json) a job may have stored
Artifacts ==
  {[preview |-> PngBytes, features |-> "{\"seed\":1}"],
   [preview |-> RawBytes, features |-> "{}"],
   [preview |-> RawBytes, features |-> "<html>"]}

\* a parsed JSON object is the set of its <<key, value>> pairs
JSONParse(text) ==
  CASE text = "{}" -> [ok |-> TRUE, value |-> {}]
    [] text = "{\"seed\":1}" -> [ok |-> TRUE, value |-> {<<"seed", 1>>}]
    [] OTHER -> [ok |-> FALSE, value |-> {}]

\* Buffer.toString("base64"): the sextets of the bytes, 64 standing for '='
RECURSIVE Base64(_)
Base64(b) ==
  IF Len(b) = 0 THEN <<>>
  ELSE IF Len(b) = 1 THEN
    <<b[1] \div 4, (b[1] % 4) * 16, 64, 64>>
  ELSE IF Len(b) = 2 THEN
    <<b[1] \div 4, (b[1] % 4) * 16 + b[2] \div 16, (b[2] % 16) * 4, 64>>
  ELSE
    <<b[1] \div 4, (b[1] % 4) * 16 + b[2] \div 16,
      (b[2] % 16) * 4 + b[3] \div 64, b[3] % 64>>
      \o Base64(SubSeq(b, 4, Len(b)))

\* FileType.fromBuffer: the mime type sniffed from the magic number, "" if none
FileTypeMime(b) ==
  IF Len(b) >= 8 /\ SubSeq(b, 1, 8) = PngBytes THEN "image/png" ELSE ""

\* bufferToBase64 without the sniffed prefix
bufferToBase64Plain(buffer) == [prefix |-> "", base64 |-> Base64(buffer)]

\* the string `data:${type.mime};base64,${base64}` or `${base64}` is kept as
\* its two parts: the prefix before the sextets, and the sextets
bufferToBase64(buffer) ==
  LET base64 == Base64(buffer)
      mime == FileTypeMime(buffer)
  IN IF mime # ""
       THEN [prefix |-> "data:" \o mime \o ";base64,", base64 |-> base64]
       ELSE [prefix |-> "", base64 |-> base64]

\* --------------------------------------------------------- CaptureSettings
\* CaptureSettings without its gpu flag: an optional field that is undefined
\* is "" (a string), <<>> (resolution) or the kind of delay
NoDelay == [kind |-> "undefined", value |-> 0]
Delays ==
  {NoDelay, [kind |-> "null", value |-> 0], [kind |-> "NaN", value |-> 0],
   [kind |-> "number", value |-> 0], [kind |-> "number", value |-> 2000]}
Resolutions == {<<>>, <<[x |-> 700, y |-> 2000]>>}

SettingsSet ==
  [url : {"u"}, mode : {"CANVAS", "CUSTOM", "VIEWPORT"}, canvasSelector : {"", "canvas"},
   resolution : Resolutions, triggerMode : {"", "DELAY", "FN_TRIGGER"}, delay : Delays]

\* the settings of the requests of the engine: a viewport capture, with and
\* without its resolution
ViewportSettings ==
  [url |-> "u", mode |-> "VIEWPORT", canvasSelector |-> "",
   resolution |-> <<[x |-> 700, y |-> 2000]>>, triggerMode |-> "", delay |-> NoDelay]
NoResolutionSettings == [ViewportSettings EXCEPT !.resolution = <<>>]

\* `delay != null && !isNaN(delay)`
DelayIsNumeric(delay) == delay.kind = "number"

\* the --delay option without the test of isNaN
DelayOptionLoose(settings) ==
  IF settings.delay.kind \in {"number", "NaN"}
    THEN <<"--delay", ToString(settings.delay.value)>> ELSE <<>>

\* the --delay option of the command
DelayOption(settings) ==
  IF DelayIsNumeric(settings.delay)
    THEN <<"--delay", ToString(settings.delay.value)>> ELSE <<>>

\* the --trigger option of the command
TriggerOption(settings) ==
  IF settings.triggerMode # "" THEN <<"--trigger", settings.triggerMode>> ELSE <<>>

\* the mode-specific arguments; reading .x of an undefined resolution throws
ModeOption(settings) ==
  IF settings.mode = "CANVAS" THEN <<"--selector", settings.canvasSelector>>
  ELSE IF settings.resolution = <<>> THEN <<>>
  ELSE <<"--resX", ToString(settings.resolution[1].x),
         "--resY", ToString(settings.resolution[1].y)>>

\* the command of containerOverrides as addJob builds it, the numbers pushed
\* into it standing as their text; threw: the TypeError of
\* `settings.resolution!.x` on an undefined resolution
buildCommand(settings) ==
  IF settings.mode # "CANVAS" /\ settings.resolution = <<>>
    THEN [threw |-> TRUE, command |-> <<>>]
    ELSE [threw |-> FALSE,
          command |-> <<"node", "index.js", "--url", settings.url, "--mode", settings.mode>>
                        \o ModeOption(settings) \o TriggerOption(settings)
                        \o DelayOption(settings)]

\* the body of the post to the capture delegate reads resolution.x and .y
\* whatever the mode
captureBodyThrows(settings) == settings.resolution = <<>>

\* ------------------------------------------------------ the listing filter
\* "we get the jobs in the last 60 minutes": `Date.now() - 60 * 60 * 10000`
LOOKBACK_MS == 60 * 60 * 10000

\* values of process.env.FETCH_JOB_STATUS_INTERVAL_MS: five seconds, one
\* hour, one day, unset, and a number with a unit
EnvSet == {"5000", "3600000", "86400000", "", "60s"}

\* parseInt: the leading digits, NaN without any
parseInt(text) ==
  CASE text = "5000" -> [nan |-> FALSE, value |-> 5000]
    [] text = "3600000" -> [nan |-> FALSE, value |-> 3600000]
    [] text = "86400000" -> [nan |-> FALSE, value |-> 86400000]
    [] text = "60s" -> [nan |-> FALSE, value |-> 60]
    [] text = "700" -> [nan |-> FALSE, value |-> 700]
    [] text = "2000" -> [nan |-> FALSE, value |-> 2000]
    [] OTHER -> [nan |-> TRUE, value |-> 0]

\* the delay setTimeout waits for: 1 for NaN, for a delay under 1 and for one
\* over 2^31 - 1
TimeoutDelay(n) ==
  IF n.nan \/ n.value < 1 \/ n.value > 2147483647 THEN 1 ELSE n.value

\* const FETCH_JOB_STATUS_INTERVAL_MS = parseInt(process.env....), as the
\* delay between the end of a cycle and the start of the next
FETCH_JOB_STATUS_INTERVAL_MS(e) == TimeoutDelay(parseInt(e))

\* the filter with the window of its comment ("the jobs in the last 60
\* minutes")
ListFilterOneHour(d) == d - 60 * 60 * 1000

\* `const after = "" + (Date.now() - 60 * 60 * 10000)`
ListFilter(d) == d - LOOKBACK_MS

\* What Date.now() was when performance.now() was 0: both clocks advance
\* alike. Any origin later than LOOKBACK_MS after the epoch gives the same
\* comparisons; this one keeps the filter from being negative.
TimeOrigin == LOOKBACK_MS

\* Date.now() when performance.now() is t
DateNow(t) == TimeOrigin + t

\* new ListJobsCommand({filters: [{name: "AFTER_CREATED_AT", values: [after]}],
\* jobQueue})
ListJobsCommand(q, a) == [jobQueue |-> q, after |-> a]

\* ------------------------------------------------------------ POST /extract
\* enum ExtractError: the value of every name
ExtractError ==
  [n \in {"UNKNOWN", "TIMEOUT", "EXTRACT_SERVICE_UNREACHABLE", "INVALID_INPUT_PARAMETERS",
          "JOB_QUEUE_FAILED", "JOB_EXECUTION_FAILED"} |-> n]

\* Object.keys(ExtractError): the names
ExtractErrors == DOMAIN ExtractError

\* req.body: url (absent or given), gpu and priority vary; the capture is a
\* viewport capture of 700 x 2000 with no trigger, no delay and no features
BodySet ==
  [url : {"", "u"}, mode : {"VIEWPORT"}, resX : {"700"}, resY : {"2000"}, delay : {""},
   gpu : BOOLEAN, withFeatures : BOOLEAN, priority : {"high", "low"}]
NoBody ==
  [url |-> "", mode |-> "VIEWPORT", resX |-> "700", resY |-> "2000", delay |-> "",
   gpu |-> FALSE, withFeatures |-> FALSE, priority |-> "low"]

\* a number as the delay of CaptureSettings
DelayOf(n) == [kind |-> IF n.nan THEN "NaN" ELSE "number", value |-> n.value]

\* `const settings: CaptureSettings = {...}`
routeSettings(b) ==
  [url |-> b.url, mode |-> b.mode, canvasSelector |-> "",
   resolution |-> <<[x |-> parseInt(b.resX).value, y |-> parseInt(b.resY).value]>>,
   triggerMode |-> "", delay |-> DelayOf(parseInt(b.delay))]

\* the route taking captureSettings.gpu from the body
routeParamsBodyGpu(b) ==
  [gpu |-> b.gpu, priority |-> b.priority = "high", withFeatures |-> b.withFeatures,
   captureSettings |-> routeSettings(b)]

\* the JobRequestParams the route calls runJob with: `gpu: true`,
\* `withFeatures: !!withFeatures`, `priority: priority === "high"`
routeParams(b) ==
  [gpu |-> TRUE, priority |-> b.priority = "high", withFeatures |-> b.withFeatures,
   captureSettings |-> routeSettings(b)]

\* `ExtractErrors.includes(err as any) ? err : ExtractError.UNKNOWN`
returnError(err) == IF err \in ExtractErrors THEN err ELSE ExtractError["UNKNOWN"]

\* res.status(500).send({error: returnError})
ErrorResponse(err) == [status |-> 500, error |-> returnError(err), data |-> <<>>]

\* res.contentType("application/json").send(jobResponse)
JobResponse(data) == [status |-> 200, error |-> "", data |-> data]

\* ------------------------------------------------- the capture job (index.js)
CAPTURE_MODES == {"CANVAS", "VIEWPORT"}
TRIGGER_MODES == {"DELAY", "FN_TRIGGER", "FN_TRIGGER_GIF"}
ERRORS ==
  [n \in {"UNKNOWN", "HTTP_ERROR", "MISSING_PARAMETERS", "INVALID_TRIGGER_PARAMETERS",
          "INVALID_PARAMETERS", "UNSUPPORTED_URL", "CANVAS_CAPTURE_FAILED", "TIMEOUT",
          "EXTRACT_FEATURES_FAILED", "INVALID_GIF_PARAMETERS"} |-> n]
DELAY_MIN == 0
DELAY_MAX == 300000
\* GIF_DEFAULTS
FRAME_COUNT == 30
MIN_FRAMES == 2
MAX_FRAMES == 100
CAPTURE_INTERVAL == 100
MIN_CAPTURE_INTERVAL == 20
MAX_CAPTURE_INTERVAL == 15000
MIN_FPS == 1
MAX_FPS == 50

\* an option that was not given on the command line
Absent == "undefined"

\* the number a comparison or isNaN makes of an option: the empty text is 0,
\* text that is no number (and undefined) is NaN
ToNumber(text) ==
  CASE text = "" -> [nan |-> FALSE, value |-> 0]
    [] text = "10" -> [nan |-> FALSE, value |-> 10]
    [] text = "60" -> [nan |-> FALSE, value |-> 60]
    [] text = "100" -> [nan |-> FALSE, value |-> 100]
    [] text = "700" -> [nan |-> FALSE, value |-> 700]
    [] text = "2000" -> [nan |-> FALSE, value |-> 2000]
    [] text = "400000" -> [nan |-> FALSE, value |-> 400000]
    [] OTHER -> [nan |-> TRUE, value |-> 0]

\* `a < k` and `a > k` of an option and a number: false when a is NaN
Below(text, k) == ~ToNumber(text).nan /\ ToNumber(text).value < k
Above(text, k) == ~ToNumber(text).nan /\ ToNumber(text).value > k

\* the options of a job that is not run
NoOpts ==
  [url |-> "", mode |-> "VIEWPORT", trigger |-> Absent, delay |-> Absent, resX |-> "700",
   selector |-> "", gif |-> FALSE, playbackFps |-> "10"]

\* `if (typeof triggerMode === "undefined") triggerMode = "DELAY"`
TriggerOf(o) == IF o.trigger = Absent THEN "DELAY" ELSE o.trigger

\* program.opts(): resY is 700, frameCount and captureInterval are left at
\* their defaults, playbackFps is 10 unless given. An option that the mode
\* and the trigger never read is left out.
OptsSet ==
  {o \in [url : {"", "u"}, mode : {"VIEWPORT", "CANVAS", "SVG"},
          trigger : {Absent, "DELAY", "FN_TRIGGER", "FN_TRIGGER_GIF", "CLICK"},
          delay : {Absent, "2000", "400000"}, resX : {"700", "100"},
          selector : {"", "canvas"}, gif : BOOLEAN, playbackFps : {"10", "60"}] :
     /\ o.mode # "VIEWPORT" => o.resX = "700"
     /\ o.mode # "CANVAS" => o.selector = ""
     /\ TriggerOf(o) # "DELAY" => o.delay # "2000"
     /\ TriggerOf(o) # "DELAY" /\ o.mode # "VIEWPORT" => o.delay = Absent}

\* isTriggerValid: `typeof delay !== undefined` compares a string with
\* undefined and is always true
isTriggerValid(triggerMode, delay, playbackFps) ==
  IF triggerMode \notin TRIGGER_MODES THEN FALSE
  ELSE IF triggerMode = "DELAY"
    THEN /\ ~ToNumber(delay).nan
         /\ ~Below(delay, DELAY_MIN)
         /\ ~Above(delay, DELAY_MAX)
  ELSE IF triggerMode = "FN_TRIGGER_GIF"
    THEN /\ ~ToNumber(playbackFps).nan
         /\ ~Below(playbackFps, MIN_FPS)
         /\ ~Above(playbackFps, MAX_FPS)
  ELSE TRUE

validateGifParams(frameCount, captureInterval, playbackFps) ==
  /\ ~(frameCount < MIN_FRAMES \/ frameCount > MAX_FRAMES)
  /\ ~(captureInterval < MIN_CAPTURE_INTERVAL \/ captureInterval > MAX_CAPTURE_INTERVAL)
  /\ ~(Below(playbackFps, MIN_FPS) \/ Above(playbackFps, MAX_FPS))

\* the checks of main before chromium is started: the error thrown, or ""
ValidationError(o) ==
  IF o.url = "" \/ o.mode = "" THEN ERRORS["MISSING_PARAMETERS"]
  ELSE IF o.mode \notin CAPTURE_MODES THEN ERRORS["INVALID_PARAMETERS"]
  ELSE IF ~isTriggerValid(TriggerOf(o), o.delay, o.playbackFps)
    THEN ERRORS["INVALID_TRIGGER_PARAMETERS"]
  ELSE IF o.gif /\ ~validateGifParams(FRAME_COUNT, CAPTURE_INTERVAL, o.playbackFps)
    THEN ERRORS["INVALID_GIF_PARAMETERS"]
  ELSE IF o.mode = "VIEWPORT"
    THEN IF o.resX = Absent THEN ERRORS["MISSING_PARAMETERS"]
         ELSE IF \/ ToNumber(o.resX).nan
                 \/ Below(o.resX, 256)
                 \/ Above(o.resX, 2048)
                 \/ Below(o.delay, DELAY_MIN)
                 \/ Above(o.delay, DELAY_MAX)
           THEN ERRORS["INVALID_PARAMETERS"]
         ELSE ""
  ELSE IF o.selector = "" THEN ERRORS["INVALID_PARAMETERS"]
  ELSE ""

\* process.env.AWS_BATCH_JOB_ID
baseKey == "job"

\* `${baseKey}/preview.${gif ? "gif" : "png"}` and `${baseKey}/features.json`
PreviewKey(gif) == <<baseKey, IF gif THEN "preview.gif" ELSE "preview.png">>
FeaturesKey == <<baseKey, "features.json">>

\* ------------------------------------------------------------------- state
VARIABLES
  clock,      \* performance.now(), in ms
  pc,         \* per runJob call: where its addJob is suspended
  params,     \* per runJob call: JobRequestParams
  laneCalls,  \* per runJob call: the lanes whose addJob was invoked, in order
  calls,      \* per runJob call: the resolutions its continuation received
  promise,    \* per runJob call: the promise runJob returned
  jobs,       \* JobsGPU.jobs, the waiting list
  batch,      \* the external batch service: per job id its queue and status
  cancelLog,  \* per job id: the outcomes of the CancelJobCommands sent for it
  fetching,   \* the jobSuccess calls suspended in their S3 fetch
  fetched,    \* per runJob call: the objects its jobSuccess read from S3
  submitted,  \* per runJob call: the SubmitJobCommands its addJob sent
  posted,     \* per runJob call: the delegates its addJob posted to, in order
  lpc,        \* where the last call of JobsGPU.loop is: suspended at one of its
              \* awaits, returned after its setTimeout ("scheduled"), or
              \* ended by a rejected await ("dead")
  timers,     \* the number of pending setTimeout(this.loop) callbacks
  now,        \* loop's `now` (0 while no loop is running)
  idx,        \* the index of the array iterator of the sweep (0 outside it)
  listed,     \* the ListJobsCommands the running call of loop has sent
  settings,   \* the CaptureSettings a command is built from
  built,      \* <<>>, or the outcome of building the command of `settings`
  env,        \* process.env.FETCH_JOB_STATUS_INTERVAL_MS
  dateNow,    \* Date.now() when the listings of a cycle are prepared
  after,      \* <<>>, or the `after` of the AFTER_CREATED_AT filter
  body,       \* per request of POST /extract: req.body
  res,        \* per request of POST /extract: the responses sent
  rpc,        \* per request of POST /extract: where its handler is
  opts,       \* the capture job: program.opts()
  mpc,        \* the capture job: where main is
  exitCode,   \* the capture job: <<>>, or the status process.exit was called with
  thrown,     \* the capture job: <<>>, or the error a step of the job raised
  s3,         \* the capture job: the keys of the objects it has stored
  frames,     \* frames.length of the GIF capture
  capturing,  \* the captureFrame calls in progress: isLastFrame of their events
  listening,  \* whether the page listens to fxhash-capture-frame
  evalp,      \* the promise of page.evaluate the job waits for
  handed,     \* whether `frames` was returned to be encoded
  encoded,    \* the frames captureFramesToGif has added to the GIF
  armed       \* the pending timers of the job: "sleep", "delayMax"

\* the engine: the lanes, the loop and the services they call
engine == <<clock, pc, params, laneCalls, calls, promise, jobs, batch,
            cancelLog, fetching, fetched, submitted, posted, lpc, timers, now, idx,
            listed>>

\* the handlers of POST /extract
route == <<body, res, rpc>>

\* the capture job
capture == <<opts, mpc, exitCode, thrown, s3, frames, capturing, listening, evalp,
             handed, encoded, armed>>

\* the command builder and the listing filter, taken alone
listConf == <<settings, built, env, dateNow, after>>

\* what no step of the lanes writes
conf == <<listConf, route, capture>>

\* what no step of the loop writes
cmdConf == <<settings, built, env, route, capture>>

vars == <<engine, conf>>

NoParams ==
  [gpu |-> FALSE, priority |-> FALSE, withFeatures |-> FALSE,
   captureSettings |-> ViewportSettings]
Pending == [state |-> "pending", data |-> <<>>, error |-> ""]
NoJob == [queue |-> "", status |-> "NONE"]

\* the shape of the state: JobWaiting is {id, resolve, started}, the
\* continuation of a waiter being the runJob call it belongs to
TypeOK ==
  /\ clock \in {k * TickMs : k \in 0..MaxTicks}
  /\ pc \in [Reqs -> {"idle", "submit", "capture", "features", "returned"}]
  /\ params \in [Reqs -> [gpu : BOOLEAN, priority : BOOLEAN, withFeatures : BOOLEAN,
                           captureSettings : SettingsSet]]
  /\ \A r \in Reqs : Len(laneCalls[r]) <= 1 /\ Len(calls[r]) <= 1
  /\ \A r \in Reqs : promise[r].state \in {"pending", "fulfilled", "rejected"}
  /\ \A i \in 1..Len(jobs) :
       jobs[i] \in [id : Reqs, resolve : Reqs, started : {k * TickMs : k \in 0..MaxTicks}]
  /\ \A r \in Reqs :
       /\ batch[r].queue \in {"", QUEUE_ARN, QUEUE_PRIORITY_ARN}
       /\ batch[r].status \in {"NONE", "UNLISTED", "RUNNING", "SUCCEEDED", "FAILED"}
  /\ \A r \in Reqs : \A k \in 1..Len(cancelLog[r]) : cancelLog[r][k] \in BOOLEAN
  /\ fetching \subseteq [id : Reqs, resolve : Reqs, stage : {"preview", "features"}]
  /\ \A r \in Reqs : Len(fetched[r]) <= 1
  /\ \A r \in Reqs : \A k \in 1..Len(submitted[r]) :
       submitted[r][k].jobQueue \in {QUEUE_ARN, QUEUE_PRIORITY_ARN}
  /\ \A r \in Reqs : \A k \in 1..Len(posted[r]) : posted[r][k] \in {"capture", "features"}
  /\ lpc \in {"scheduled", "cancel", "listStd", "listPriority", "dead"}
  /\ timers \in 0..1
  /\ now \in {k * TickMs : k \in 0..MaxTicks}
  /\ idx \in 0..MaxReq
  /\ Len(listed) <= 2
  /\ body \in [Reqs -> BodySet]
  /\ \A r \in Reqs : Len(res[r]) <= 1
  /\ rpc \in [Reqs -> {"idle", "awaiting", "done"}]
  /\ \A k \in 1..Len(listed) : listed[k].jobQueue \in {QUEUE_ARN, QUEUE_PRIORITY_ARN}
  /\ opts \in OptsSet
  /\ mpc \in {"start", "launch", "goto", "waitPreview", "shot", "timed", "collect",
              "encode", "features", "putPreview", "putFeatures", "exited"}
  /\ exitCode \in {<<>>, <<0>>, <<1>>}
  /\ Len(thrown) <= 1
  /\ s3 \subseteq {PreviewKey(TRUE), PreviewKey(FALSE), FeaturesKey}
  /\ frames \in 0..(MAX_FRAMES + MaxCapturing)
  /\ Len(capturing) <= MaxCapturing
  /\ \A i \in 1..Len(capturing) : capturing[i] \in BOOLEAN
  /\ listening \in BOOLEAN
  /\ evalp \in {"none", "pending", "resolved", "rejected"}
  /\ handed \in BOOLEAN
  /\ encoded \in 0..frames
  /\ armed \subseteq {"sleep", "delayMax"}

\* UNLISTED is a job the listings do not show yet; RUNNING stands for the
\* statuses of queueStatus, which the loop only counts

EngineInit ==
  /\ clock = 0
  /\ pc = [r \in Reqs |-> "idle"]
  /\ params = [r \in Reqs |-> NoParams]
  /\ laneCalls = [r \in Reqs |-> <<>>]
  /\ calls = [r \in Reqs |-> <<>>]
  /\ promise = [r \in Reqs |-> Pending]
  /\ jobs = <<>>
  /\ batch = [r \in Reqs |-> NoJob]
  /\ cancelLog = [r \in Reqs |-> <<>>]
  /\ fetching = {}
  /\ fetched = [r \in Reqs |-> <<>>]
  \* JobsFactory.init has called start(): the first loop() found no job and
  \* scheduled the next one
  /\ submitted = [r \in Reqs |-> <<>>]
  /\ posted = [r \in Reqs |-> <<>>]
  /\ lpc = "scheduled"
  /\ timers = 1
  /\ now = 0
  /\ idx = 0
  /\ listed = <<>>
  /\ body = [r \in Reqs |-> NoBody]
  /\ res = [r \in Reqs |-> <<>>]
  /\ rpc = [r \in Reqs |-> "idle"]

\* the capture job before main runs
CaptureStart ==
  /\ mpc = "start"
  /\ exitCode = <<>>
  /\ thrown = <<>>
  /\ s3 = {}
  /\ frames = 0
  /\ capturing = <<>>
  /\ listening = FALSE
  /\ evalp = "none"
  /\ handed = FALSE
  /\ encoded = 0
  /\ armed = {}

\* no capture job is looked at
NoCapture == opts = NoOpts /\ CaptureStart

\* the engine alone
EngineOnly ==
  /\ EngineInit
  /\ settings = ViewportSettings
  /\ built = <<>>
  /\ env = "5000"
  /\ dateNow = TimeOrigin
  /\ after = <<>>

\* the engine runs with one configuration
Init ==
  /\ EngineOnly
  /\ NoCapture

\* ------------------------------------------------------- JobsFactory.runJob
\* resolveJob with the test of resolution.type lost: every resolution rejects
resolveJobAlwaysRejects(p, resolution) ==
  IF p.state # "pending" THEN p
  ELSE [state |-> "rejected", data |-> <<>>, error |-> resolution.error]

\* resolveJob, the continuation runJob hands to the lane: settles the promise
\* (settling a settled promise changes nothing)
resolveJob(p, resolution) ==
  IF p.state # "pending" THEN p
  ELSE IF resolution.type = "success" /\ resolution.data # <<>>
    THEN [state |-> "fulfilled", data |-> resolution.data, error |-> ""]
    ELSE [state |-> "rejected", data |-> <<>>, error |-> resolution.error]

\* request.resolve(resolution) on the handler's working state S
Resolve(S, r, resolution) ==
  [S EXCEPT !.calls[r] = Append(@, resolution),
            !.promise[r] = resolveJob(@, resolution)]

\* runJob with the gpu flag ignored
LaneOfIgnoresGpu(p) == "JobsGPU"

\* the lane runJob picks
LaneOf(p) == IF p.gpu THEN "JobsGPU" ELSE "JobsNoGPU"

\* addJob submitting every job to the standard queue
JobQueueOfIgnoresPriority(p) == QUEUE_ARN

\* the queue addJob submits to
JobQueueOf(p) == IF p.priority THEN QUEUE_PRIORITY_ARN ELSE QUEUE_ARN

\* the working state of a handler: the shared objects it reads and writes
Cur ==
  [jobs |-> jobs, fetching |-> fetching, fetched |-> fetched,
   calls |-> calls, promise |-> promise]

Commit(S) ==
  /\ jobs' = S.jobs
  /\ fetching' = S.fetching
  /\ fetched' = S.fetched
  /\ calls' = S.calls
  /\ promise' = S.promise

\* the SubmitJobCommand addJob builds
SubmitJobCommand(p) ==
  [jobDefinition |-> JOB_DEF_ARN, jobName |-> JOB_NAME, jobQueue |-> JobQueueOf(p),
   command |-> buildCommand(p.captureSettings).command]

\* the waiter addJob pushes: the job id the service gave to request r is r
Waiter(r) == [id |-> r, resolve |-> r, started |-> clock]

\* addJob with the push placed before the test of response.jobId
addJobCatchAfterPush(S, r) ==
  Resolve([S EXCEPT !.jobs = Append(@, Waiter(r))], r, Failure(JOB_QUEUE_FAILED))

\* the catch block of JobsGPU.addJob: the send threw, its response carries no
\* jobId (`throw null`), or building the command threw
addJobCatch(S, r) == Resolve(S, r, Failure(JOB_QUEUE_FAILED))

\* the catch block of JobsNoGPU.addJob resolving twice
noGpuCatchTwice(S, r) ==
  Resolve(Resolve(S, r, Failure(NOGPU_ERROR)), r, Failure(NOGPU_ERROR))

\* the catch block of JobsNoGPU.addJob: a post threw, or building its body did
noGpuCatch(S, r) == Resolve(S, r, Failure(NOGPU_ERROR))

\* addJob of the lane throws before its first await: its catch block runs in
\* the call of runJob
addJobThrowsAtOnce(p) ==
  IF LaneOf(p) = "JobsGPU" THEN buildCommand(p.captureSettings).threw
  ELSE captureBodyThrows(p.captureSettings)

\* runJob up to the first await of the lane's addJob: for JobsGPU
\* `await this.client.send(jobCommand)`, for JobsNoGPU the post to the capture
\* delegate
runJob(r, p) ==
  /\ pc[r] = "idle"
  /\ params' = [params EXCEPT ![r] = p]
  /\ laneCalls' = [laneCalls EXCEPT ![r] = Append(@, LaneOf(p))]
  /\ IF addJobThrowsAtOnce(p)
       THEN /\ pc' = [pc EXCEPT ![r] = "returned"]
            /\ Commit(IF LaneOf(p) = "JobsGPU" THEN addJobCatch(Cur, r)
                                               ELSE noGpuCatch(Cur, r))
            /\ UNCHANGED <<submitted, posted>>
       ELSE /\ pc' = [pc EXCEPT ![r] = IF LaneOf(p) = "JobsGPU" THEN "submit" ELSE "capture"]
            /\ submitted' = [submitted EXCEPT ![r] =
                 IF LaneOf(p) = "JobsGPU" THEN Append(@, SubmitJobCommand(p)) ELSE @]
            /\ posted' = [posted EXCEPT ![r] =
                 IF LaneOf(p) = "JobsGPU" THEN @ ELSE Append(@, "capture")]
            /\ UNCHANGED <<jobs, fetching, fetched, calls, promise>>
  /\ UNCHANGED <<listConf, listed, clock, batch, cancelLog, lpc, timers, now, idx>>

\* a caller other than the route (the batch tester, a test) calls runJob; the
\* calls are numbered in the order they are made
runJobCalled(r, p) ==
  /\ \A q \in Reqs : q < r => pc[q] # "idle"
  /\ runJob(r, p)
  /\ UNCHANGED <<route, capture>>

\* ----------------------------------------------------------- JobsGPU.addJob
\* addJob pushing the waiter twice
addJobPushTwice(js, r) == Append(Append(js, Waiter(r)), Waiter(r))

\* addJob putting the waiter at the head of the list
addJobUnshift(js, r) == <<Waiter(r)>> \o js

\* the waiting list after `this.jobs.push({...})`
addJobPush(js, r) == Append(js, Waiter(r))

\* `await this.client.send(jobCommand)` returned a job id: the service holds
\* the job in the queue of the command, and the waiter is pushed
addJobSubmitted(r) ==
  /\ pc[r] = "submit"
  /\ batch' = [batch EXCEPT ![r] = [queue |-> submitted[r][Len(submitted[r])].jobQueue,
                                    status |-> "UNLISTED"]]
  /\ jobs' = addJobPush(jobs, r)
  /\ pc' = [pc EXCEPT ![r] = "returned"]
  /\ UNCHANGED <<conf, listed, clock, params, laneCalls, calls, promise, cancelLog, fetching,
                 fetched, submitted, posted, lpc, timers, now, idx>>

\* the send threw, or its response carries no jobId (`throw null`)
addJobRejected(r) ==
  /\ pc[r] = "submit"
  /\ Commit(addJobCatch(Cur, r))
  /\ pc' = [pc EXCEPT ![r] = "returned"]
  /\ UNCHANGED <<conf, listed, clock, params, laneCalls, batch, cancelLog, submitted, posted, lpc, timers, now, idx>>

\* ------------------------------------------- removeJobFromQueue and friends
\* indexOf finding nothing: -1 whatever the job
IndexOfAbsent(js, job) == 0

\* Array.prototype.indexOf: 0 stands for -1
IndexOf(js, job) ==
  IF \E i \in 1..Len(js) : js[i] = job
    THEN CHOOSE i \in 1..Len(js) : js[i] = job /\ \A k \in 1..(i - 1) : js[k] # job
    ELSE 0

\* removeJobFromQueue taking the head of the list, whatever the job
removeJobFromQueueHead(js, job) == IF Len(js) = 0 THEN js ELSE Tail(js)

\* this.jobs.splice(index, 1); splice(-1, 1) removes the last element
removeJobFromQueue(js, job) ==
  LET index == IF IndexOf(js, job) = 0 THEN Len(js) ELSE IndexOf(js, job)
  IN IF Len(js) = 0 THEN js
     ELSE SubSeq(js, 1, index - 1) \o SubSeq(js, index + 1, Len(js))

\* jobFailed resolving the waiter without removing it
jobFailedKeepsWaiter(S, job) == Resolve(S, job.resolve, Failure(JOB_EXECUTION_FAILED))

\* jobFailed removing the waiter without resolving it
jobFailedSilent(S, job) == [S EXCEPT !.jobs = removeJobFromQueue(@, job)]

\* jobFailed: no await inside
jobFailed(S, job) ==
  Resolve([S EXCEPT !.jobs = removeJobFromQueue(@, job)],
          job.resolve, Failure(JOB_EXECUTION_FAILED))

\* a call of jobSuccess suspended at an await: its job (of which it reads id
\* and resolve; started is only printed) and the await
Fetch(job, stage) == [id |-> job.id, resolve |-> job.resolve, stage |-> stage]

\* jobSuccess taking the job out of the list and fetching nothing
jobSuccessDrops(S, job) == [S EXCEPT !.jobs = removeJobFromQueue(@, job)]

\* jobSuccess up to its first await, the GetObjectCommand of preview.png
jobSuccess(S, job) ==
  [S EXCEPT !.jobs = removeJobFromQueue(@, job),
            !.fetching = @ \cup {Fetch(job, "preview")}]

\* the catch block of jobSuccess starting the fetch again
jobSuccessCatchRetries(S, job) ==
  [S EXCEPT !.fetching = @ \cup {Fetch(job, "preview")}]

\* the catch block of jobSuccess
jobSuccessCatch(S, job) == Resolve(S, job.resolve, Failure(JOB_EXECUTION_FAILED))

\* the data jobSuccess resolves with, from the buffer of the preview and the
\* text of the features
jobSuccessData(previewBuffer, featuresText) ==
  [captureBase64 |-> bufferToBase64(previewBuffer),
   features |-> <<JSONParse(featuresText).value>>]

\* both streams were read: resolve with the data; JSON.parse throwing leads to
\* the catch block
jobSuccessResolve(S, job, art) ==
  IF JSONParse(art.features).ok
    THEN Resolve(S, job.resolve, Success(jobSuccessData(art.preview, art.features)))
    ELSE jobSuccessCatch(S, job)

Drop(S, f) == [S EXCEPT !.fetching = @ \ {f}]

\* `await this.s3client.send(getCommand)` returned: the second send
s3PreviewReturned(f) ==
  /\ f \in fetching /\ f.stage = "preview"
  /\ Commit([Drop(Cur, f) EXCEPT !.fetching = @ \cup {Fetch(f, "features")}])
  /\ UNCHANGED <<conf, listed, clock, pc, params, laneCalls, batch, cancelLog, submitted, posted, lpc, timers, now, idx>>

\* `await this.s3client.send(getFeaturesCommand)` returned: without both
\* bodies `throw null`, else the streams are read and the job resolved
s3FeaturesReturned(f) ==
  /\ f \in fetching /\ f.stage = "features"
  /\ \/ Commit(jobSuccessCatch(Drop(Cur, f), f))
     \/ \E art \in Artifacts :
          Commit(jobSuccessResolve(
                   [Drop(Cur, f) EXCEPT !.fetched[f.resolve] = Append(@, art)],
                   f, art))
  /\ UNCHANGED <<conf, listed, clock, pc, params, laneCalls, batch, cancelLog, submitted, posted, lpc, timers, now, idx>>

\* one of the awaits of jobSuccess threw (a send, or a stream's error event)
s3Failed(f) ==
  /\ f \in fetching
  /\ Commit(jobSuccessCatch(Drop(Cur, f), f))
  /\ UNCHANGED <<conf, listed, clock, pc, params, laneCalls, batch, cancelLog, submitted, posted, lpc, timers, now, idx>>

\* ------------------------------------------------------------- JobsGPU.loop
Expired(job, t) == t - job.started >= HOUR_MS

\* the sweep stopping at every job, expired or not
NextAny(js, i, t) == IF i > Len(js) THEN 0 ELSE i

\* the array iterator of `for (const job of this.jobs)`: from index i, the
\* first job the sweep stops at (0 when the iterator is exhausted)
RECURSIVE NextExpired(_, _, _)
NextExpired(js, i, t) ==
  IF i > Len(js) THEN 0
  ELSE IF Expired(js[i], t) THEN i
  ELSE NextExpired(js, i + 1, t)

\* `if (this.jobs.length > 0)` was true: `after` is computed and the listing of
\* the standard queue is sent
ListingsPrepared ==
  /\ dateNow' = DateNow(clock)
  /\ after' = <<ListFilter(DateNow(clock))>>
  /\ listed' = <<ListJobsCommand(QUEUE_ARN, ListFilter(DateNow(clock)))>>

\* no listing is prepared: `after` is a constant of the block of the listings
ListingsOver ==
  /\ dateNow' = TimeOrigin
  /\ after' = <<>>
  /\ listed' = <<>>

\* the listings made whatever the length of the list
AfterSweepAlwaysLists(js) == "listStd"

\* what follows the sweep: the first listing if jobs are waiting, else the
\* setTimeout of the next loop
AfterSweep(js) == IF Len(js) > 0 THEN "listStd" ELSE "scheduled"

\* the sweep goes on from index i: to the cancel of the next expired job, or
\* to what follows the sweep; `now` lives as long as the call of loop
SweepFrom(js, i, t) ==
  /\ idx' = NextExpired(js, i, t)
  /\ lpc' = IF NextExpired(js, i, t) > 0 THEN "cancel" ELSE AfterSweep(js)
  /\ now' = IF NextExpired(js, i, t) = 0 /\ AfterSweep(js) = "scheduled" THEN 0 ELSE t
  /\ IF NextExpired(js, i, t) = 0 /\ AfterSweep(js) = "listStd"
       THEN ListingsPrepared
       ELSE ListingsOver

\* loop setting its timer twice
setTimeoutLoopTwice(n) == n + 2

\* setTimeout(this.loop, FETCH_JOB_STATUS_INTERVAL_MS), the last statement of
\* loop, on the number n of pending callbacks
setTimeoutLoop(n) == n + 1

\* the pending callbacks once the segment of loop that leaves it at p is over
TimersAfter(p, n) == IF p = "scheduled" THEN setTimeoutLoop(n) ELSE n

\* a timer fires: a call of loop runs up to its first await (or to its end).
\* lpc, now and idx are the frame of one call: a timer firing while a call is
\* suspended would need a second frame, and is a state C17_OneCycle excludes
loopStart ==
  /\ timers > 0
  /\ SweepFrom(jobs, 1, clock)
  /\ timers' = TimersAfter(lpc', timers - 1)
  /\ UNCHANGED <<cmdConf, clock, pc, params, laneCalls, calls, promise, jobs, batch,
                 cancelLog, fetching, fetched, submitted, posted>>

\* the index the array iterator reads next, the job at i having been handled
IteratorNext(i) == i + 1

\* `await this.client.send(cmd)` returned: jobFailed(job), then the iterator
\* moves on in the array as it now is
loopCancelReturned ==
  /\ lpc = "cancel"
  /\ idx \in 1..Len(jobs)
  /\ cancelLog' = [cancelLog EXCEPT ![jobs[idx].id] = Append(@, TRUE)]
  /\ LET S == jobFailed(Cur, jobs[idx])
     IN /\ Commit(S)
        /\ SweepFrom(S.jobs, IteratorNext(idx), now)
  /\ timers' = TimersAfter(lpc', timers)
  /\ UNCHANGED <<cmdConf, clock, pc, params, laneCalls, batch, submitted, posted>>

\* where loop is after an awaited call threw: nothing catches it, the promise
\* of loop() rejects and no setTimeout is reached
loopThrows == "dead"

\* the CancelJobCommand threw
loopCancelThrew ==
  /\ lpc = "cancel"
  /\ idx \in 1..Len(jobs)
  /\ cancelLog' = [cancelLog EXCEPT ![jobs[idx].id] = Append(@, FALSE)]
  /\ lpc' = loopThrows
  /\ now' = 0
  /\ ListingsOver
  /\ idx' = 0
  /\ UNCHANGED <<cmdConf, clock, pc, params, laneCalls, calls, promise, jobs, batch,
                 fetching, fetched, submitted, posted, timers>>

\* The batch service creates a job in the step that answers its submission,
\* which is the step that registers its waiter: the createdAt of a job is the
\* Date.now() of its waiter's `started`. The jobs that have no waiter are
\* looked up by no pass, whatever the filter makes of them.
CreatedAt(w) == DateNow(w.started)

\* the AFTER_CREATED_AT filter with value a lets job k through
CreatedAfter(k, a) ==
  \A i \in 1..Len(jobs) : jobs[i].id = k => CreatedAt(jobs[i]) > a

\* response.jobSummaryList of a ListJobsCommand on queue q
JobSummaryList(cmd) ==
  {[jobId |-> j, status |-> batch[j].status] :
     j \in {k \in Reqs : /\ batch[k].queue = cmd.jobQueue
                         /\ batch[k].status \notin {"NONE", "UNLISTED"}
                         /\ CreatedAfter(k, cmd.after)}}

\* the matching pass failing every listed job that has not SUCCEEDED
RECURSIVE MatchFailsRunning(_, _, _)
MatchFailsRunning(S, jobList, i) ==
  IF i < 1 THEN S
  ELSE IF i > Len(S.jobs) THEN MatchFailsRunning(S, jobList, i - 1)
  ELSE
    LET job == S.jobs[i]
        jobResult == {e \in jobList : e.jobId = job.id}
    IN IF jobResult = {} THEN MatchFailsRunning(S, jobList, i - 1)
       ELSE LET status == (CHOOSE e \in jobResult : TRUE).status
            IN IF status = "SUCCEEDED"
                 THEN MatchFailsRunning(jobSuccess(S, job), jobList, i - 1)
                 ELSE MatchFailsRunning(jobFailed(S, job), jobList, i - 1)

\* the matching pass taking every listed job for a SUCCEEDED one
RECURSIVE MatchSucceedsAll(_, _, _)
MatchSucceedsAll(S, jobList, i) ==
  IF i < 1 THEN S
  ELSE IF i > Len(S.jobs) THEN MatchSucceedsAll(S, jobList, i - 1)
  ELSE
    LET job == S.jobs[i]
        jobResult == {e \in jobList : e.jobId = job.id}
    IN IF jobResult = {} THEN MatchSucceedsAll(S, jobList, i - 1)
       ELSE MatchSucceedsAll(jobSuccess(S, job), jobList, i - 1)

\* the body of `for (let i = this.jobs.length-1; i >= 0; i--)`, from index i down
RECURSIVE Match(_, _, _)
Match(S, jobList, i) ==
  IF i < 1 THEN S
  ELSE IF i > Len(S.jobs) THEN Match(S, jobList, i - 1)
  ELSE
    LET job == S.jobs[i]
        jobResult == {e \in jobList : e.jobId = job.id}
    IN IF jobResult = {} THEN Match(S, jobList, i - 1)
       ELSE LET status == (CHOOSE e \in jobResult : TRUE).status
            IN IF status = "SUCCEEDED" THEN Match(jobSuccess(S, job), jobList, i - 1)
               ELSE IF status = "FAILED" THEN Match(jobFailed(S, job), jobList, i - 1)
               ELSE Match(S, jobList, i - 1)

\* the listing of the standard queue returned: match, then list the other queue
loopListReturned ==
  /\ lpc = "listStd"
  /\ Commit(Match(Cur, JobSummaryList(listed[1]), Len(jobs)))
  /\ lpc' = "listPriority"
  /\ listed' = Append(listed, ListJobsCommand(QUEUE_PRIORITY_ARN, after[1]))
  /\ UNCHANGED <<dateNow, after>>
  /\ UNCHANGED <<cmdConf, clock, pc, params, laneCalls, batch, cancelLog, submitted, posted, timers,
                 now, idx>>

\* the listing of the priority queue returned: match, then setTimeout
loopListPriorityReturned ==
  /\ lpc = "listPriority"
  /\ Commit(Match(Cur, JobSummaryList(listed[2]), Len(jobs)))
  /\ lpc' = "scheduled"
  /\ ListingsOver
  /\ timers' = setTimeoutLoop(timers)
  /\ now' = 0
  /\ UNCHANGED <<cmdConf, clock, pc, params, laneCalls, batch, cancelLog, submitted, posted, idx>>

\* a ListJobsCommand threw
loopListThrew ==
  /\ lpc \in {"listStd", "listPriority"}
  /\ lpc' = loopThrows
  /\ now' = 0
  /\ ListingsOver
  /\ UNCHANGED <<cmdConf, clock, pc, params, laneCalls, calls, promise, jobs, batch,
                 cancelLog, fetching, fetched, submitted, posted, timers, idx>>

\* ------------------------------------------------- the external batch service
\* a job becomes visible to the listings, runs, and ends
StatusAfter(s) ==
  CASE s = "UNLISTED" -> {"RUNNING"}
    [] s = "RUNNING" -> {"SUCCEEDED", "FAILED"}
    [] OTHER -> {}

\* the status of a job is read only while its waiter is in the list
batchProgress(j) ==
  /\ \E i \in 1..Len(jobs) : jobs[i].id = j
  /\ \E s \in StatusAfter(batch[j].status) :
       batch' = [batch EXCEPT ![j].status = s]
  /\ UNCHANGED <<conf, listed, clock, pc, params, laneCalls, calls, promise, jobs,
                 cancelLog, fetching, fetched, submitted, posted, lpc, timers, now, idx>>

\* time passes; the clock is read against the `started` of a waiter, and is
\* not followed while the list is empty
Tick ==
  /\ clock < MaxTicks * TickMs
  /\ jobs # <<>>
  /\ clock' = clock + TickMs
  /\ UNCHANGED <<conf, listed, pc, params, laneCalls, calls, promise, jobs, batch,
                 cancelLog, fetching, fetched, submitted, posted, lpc, timers, now, idx>>

\* --------------------------------------------------------- JobsNoGPU.addJob
\* responseFeatures.data: the JSON the feature delegate answered
FeatureData == {{<<"seed", 1>>}}

\* `request.resolve({type: "success", data: {captureBase64, features}})`
noGpuResolve(S, r, buffer, features) ==
  Resolve(S, r, Success([captureBase64 |-> bufferToBase64(buffer), features |-> features]))

\* the capture delegate answered: the second post if features are wanted,
\* else the capture is encoded and the request resolved
noGpuCaptureReturned(r) ==
  /\ pc[r] = "capture"
  /\ IF params[r].withFeatures
       THEN /\ pc' = [pc EXCEPT ![r] = "features"]
            /\ posted' = [posted EXCEPT ![r] = Append(@, "features")]
            /\ UNCHANGED <<jobs, fetching, fetched, calls, promise>>
       ELSE /\ pc' = [pc EXCEPT ![r] = "returned"]
            /\ \E buffer \in Buffers : Commit(noGpuResolve(Cur, r, buffer, <<>>))
            /\ UNCHANGED posted
  /\ UNCHANGED <<conf, listed, clock, params, laneCalls, batch, cancelLog, submitted, lpc, timers, now, idx>>

\* the feature delegate answered: the capture is encoded and the request resolved
noGpuFeaturesReturned(r) ==
  /\ pc[r] = "features"
  /\ \E buffer \in Buffers, data \in FeatureData :
       Commit(noGpuResolve(Cur, r, buffer, <<data>>))
  /\ pc' = [pc EXCEPT ![r] = "returned"]
  /\ UNCHANGED <<conf, listed, clock, params, laneCalls, batch, cancelLog, submitted, posted, lpc, timers, now, idx>>

noGpuFailed(r) ==
  /\ pc[r] \in {"capture", "features"}
  /\ Commit(noGpuCatch(Cur, r))
  /\ pc' = [pc EXCEPT ![r] = "returned"]
  /\ UNCHANGED <<conf, listed, clock, params, laneCalls, batch, cancelLog, submitted, posted, lpc, timers, now, idx>>

\* ------------------------------------- the command and the filter, alone
\* addJob builds the command of `settings`
buildCommandStep ==
  /\ built = <<>>
  /\ built' = <<buildCommand(settings)>>
  /\ UNCHANGED <<engine, route, capture, settings, env, dateNow, after>>

\* loop prepares its ListJobsCommands
listFilterStep ==
  /\ after = <<>>
  /\ after' = <<ListFilter(dateNow)>>
  /\ UNCHANGED <<engine, route, capture, settings, built, env, dateNow>>

ConfInit ==
  /\ EngineInit
  /\ NoCapture
  /\ settings \in SettingsSet
  /\ built = <<>>
  /\ env \in EnvSet
  /\ dateNow \in {DateNow(0), DateNow(TickMs), 100000000}
  /\ after = <<>>

ConfNext == buildCommandStep \/ listFilterStep

ConfSpec == ConfInit /\ [][ConfNext]_vars

\* ------------------------------------------------------------ specification
\* the requests runJob is called with: a field the chosen lane never reads is
\* left at false
\* -------------------------------------------------- the handler of /extract
\* The handler up to its await, or to its response if it throws before. What
\* validateCaptureSettings answers is not in these sources: either answer.
routeExtract(r, b) ==
  /\ rpc[r] = "idle"
  /\ \A q \in Reqs : q < r => rpc[q] # "idle"
  /\ body' = [body EXCEPT ![r] = b]
  /\ \E valid \in BOOLEAN :
       IF b.url = "" \/ ~valid
         THEN /\ res' = [res EXCEPT ![r] =
                    Append(@, ErrorResponse(ExtractError["INVALID_INPUT_PARAMETERS"]))]
              /\ rpc' = [rpc EXCEPT ![r] = "done"]
              /\ UNCHANGED <<engine, listConf, capture>>
         ELSE /\ runJob(r, routeParams(b))
              /\ rpc' = [rpc EXCEPT ![r] = "awaiting"]
              /\ UNCHANGED <<res, capture>>

\* the promise of runJob has settled: the handler goes on after its await, to
\* the response, or to the catch block with the reason of the rejection
routeSettled(r) ==
  /\ rpc[r] = "awaiting"
  /\ promise[r].state # "pending"
  /\ res' = [res EXCEPT ![r] =
        Append(@, IF promise[r].state = "fulfilled"
                    THEN JobResponse(promise[r].data)
                    ELSE ErrorResponse(promise[r].error))]
  /\ rpc' = [rpc EXCEPT ![r] = "done"]
  /\ UNCHANGED <<engine, listConf, body, capture>>

\* ------------------------------------------------------ main of the capture job
\* what no step of the capture job writes
jobFrame == <<engine, listConf, route, opts>>

\* the page side and the frames of a GIF capture
gifState == <<frames, capturing, listening, evalp, handed, encoded, armed>>

\* an error reaches the catch block of main: console.error, process.exit(1)
Throw(err) ==
  /\ thrown' = <<err>>
  /\ exitCode' = <<1>>
  /\ mpc' = "exited"
  /\ UNCHANGED <<s3, gifState>>

\* performCapture is called; `a` are the timers pending at the call. Without
\* --gif one screenshot or one toDataURL; with it captureFramesProgrammatically
\* (the listener and its timer are set on the page) or captureFramesWithTiming
performCapture(a) ==
  IF ~opts.gif
    THEN mpc' = "shot" /\ evalp' = "none" /\ armed' = a /\ UNCHANGED listening
  ELSE IF TriggerOf(opts) = "FN_TRIGGER_GIF"
    THEN /\ mpc' = "collect"
         /\ evalp' = "pending"
         /\ listening' = TRUE
         /\ armed' = a \cup {"delayMax"}
  ELSE mpc' = "timed" /\ evalp' = "none" /\ armed' = a /\ UNCHANGED listening

\* main up to its first await: the options are checked
mainStarted ==
  /\ mpc = "start"
  /\ IF ValidationError(opts) # ""
       THEN Throw(ValidationError(opts))
       ELSE mpc' = "launch" /\ UNCHANGED <<exitCode, thrown, s3, gifState>>
  /\ UNCHANGED jobFrame

\* puppeteer.launch, newPage and setViewport: they resolve, or one rejects
browserReady ==
  /\ mpc = "launch"
  /\ \E ok \in BOOLEAN :
       IF ok THEN mpc' = "goto" /\ UNCHANGED <<exitCode, thrown, s3, gifState>>
             ELSE Throw("Error")
  /\ UNCHANGED jobFrame

\* page.goto has settled. With status 200 main goes on to waitPreview, or for
\* FN_TRIGGER_GIF straight to performCapture
pageLoaded ==
  /\ mpc = "goto"
  /\ \E out \in {"200", "404", "TimeoutError", "Error"} :
       CASE out = "200" ->
              /\ IF TriggerOf(opts) = "FN_TRIGGER_GIF"
                   THEN performCapture(armed)
                   ELSE /\ mpc' = "waitPreview"
                        /\ armed' = armed \cup {"sleep"}
                        /\ evalp' = IF TriggerOf(opts) = "FN_TRIGGER" THEN "pending" ELSE "none"
                        /\ UNCHANGED listening
              /\ UNCHANGED <<exitCode, thrown, s3, frames, capturing, handed, encoded>>
         [] out = "404" -> Throw(ERRORS["HTTP_ERROR"])
         [] out = "TimeoutError" -> Throw(ERRORS["TIMEOUT"])
         [] out = "Error" -> Throw(ERRORS["UNKNOWN"])
  /\ UNCHANGED jobFrame

\* waitPreview, FN_TRIGGER: the page fires fxhash-preview, the race resolves
previewFired ==
  /\ mpc = "waitPreview"
  /\ evalp = "pending"
  /\ performCapture(armed)
  /\ UNCHANGED <<exitCode, thrown, s3, frames, capturing, handed, encoded>>
  /\ UNCHANGED jobFrame

\* waitPreview, FN_TRIGGER: page.evaluate rejects (the page crashed or
\* navigated). The race rejects, `.then(resolve)` is skipped and nothing
\* handles the rejection: node 16 (Dockerfile.v132) ends the process with
\* status 1, node 14 (Dockerfile) warns and goes on
previewRejected ==
  /\ mpc = "waitPreview"
  /\ evalp = "pending"
  /\ evalp' = "rejected"
  /\ thrown' = <<"Error">>
  /\ \E crash \in BOOLEAN :
       IF crash THEN exitCode' = <<1>> /\ mpc' = "exited"
                ELSE UNCHANGED <<exitCode, mpc>>
  /\ UNCHANGED <<s3, frames, capturing, listening, handed, encoded, armed>>
  /\ UNCHANGED jobFrame

\* the timer of sleep fires: sleep(delay) of DELAY ends the wait, sleep(DELAY_MAX)
\* of FN_TRIGGER resolves the race unless it is settled
sleepOver ==
  /\ exitCode = <<>>
  /\ "sleep" \in armed
  /\ IF mpc = "waitPreview" /\ evalp # "rejected"
       THEN performCapture(armed \ {"sleep"})
       ELSE armed' = armed \ {"sleep"} /\ UNCHANGED <<mpc, evalp, listening>>
  /\ UNCHANGED <<exitCode, thrown, s3, frames, capturing, handed, encoded>>
  /\ UNCHANGED jobFrame

\* the capture without --gif: page.screenshot, or toDataURL and the resize
shotTaken ==
  /\ mpc = "shot"
  /\ \E ok \in BOOLEAN :
       IF ok THEN mpc' = "features" /\ UNCHANGED <<exitCode, thrown, s3, gifState>>
             ELSE Throw(ERRORS["CANVAS_CAPTURE_FAILED"])
  /\ UNCHANGED jobFrame

\* captureFramesWithTiming: one more frame, frameCount of them in all
timedFrame ==
  /\ mpc = "timed"
  /\ \E ok \in BOOLEAN :
       IF ok
         THEN /\ frames' = frames + 1
              /\ IF frames + 1 = FRAME_COUNT
                   THEN handed' = TRUE /\ mpc' = "encode"
                   ELSE UNCHANGED <<handed, mpc>>
              /\ UNCHANGED <<exitCode, thrown, s3, capturing, listening, evalp, encoded, armed>>
         ELSE Throw(ERRORS["CANVAS_CAPTURE_FAILED"])
  /\ UNCHANGED jobFrame

\* the page fires fxhash-capture-frame: handleFrameCapture starts and calls
\* window.captureFrame, which starts captureFrameFunction
captureFrameEvent(isLastFrame) ==
  /\ exitCode = <<>>
  /\ listening
  /\ Len(capturing) < MaxCapturing
  /\ capturing' = Append(capturing, isLastFrame)
  /\ UNCHANGED <<mpc, exitCode, thrown, s3, frames, listening, evalp, handed, encoded, armed>>
  /\ UNCHANGED jobFrame

\* the i-th capture in progress is done: the frame is pushed, frames.length
\* goes back to the handler, which at the last frame or at maxFrames removes
\* the listener and resolves
captureFrameDone(i) ==
  /\ exitCode = <<>>
  /\ i \in 1..Len(capturing)
  /\ frames' = frames + 1
  /\ capturing' = SubSeq(capturing, 1, i - 1) \o SubSeq(capturing, i + 1, Len(capturing))
  /\ IF capturing[i] \/ frames + 1 >= MAX_FRAMES
       THEN /\ listening' = FALSE
            /\ evalp' = IF evalp = "pending" THEN "resolved" ELSE evalp
       ELSE UNCHANGED <<listening, evalp>>
  /\ UNCHANGED <<mpc, exitCode, thrown, s3, handed, encoded, armed>>
  /\ UNCHANGED jobFrame

\* the i-th capture in progress throws: no frame, its handler ends
captureFrameFailed(i) ==
  /\ exitCode = <<>>
  /\ i \in 1..Len(capturing)
  /\ capturing' = SubSeq(capturing, 1, i - 1) \o SubSeq(capturing, i + 1, Len(capturing))
  /\ UNCHANGED <<mpc, exitCode, thrown, s3, frames, listening, evalp, handed, encoded, armed>>
  /\ UNCHANGED jobFrame

\* the timer of the page fires after delayMax: the listener is removed and
\* the promise resolved
delayMaxFired ==
  /\ exitCode = <<>>
  /\ "delayMax" \in armed
  /\ armed' = armed \ {"delayMax"}
  /\ listening' = FALSE
  /\ evalp' = IF evalp = "pending" THEN "resolved" ELSE evalp
  /\ UNCHANGED <<mpc, exitCode, thrown, s3, frames, capturing, handed, encoded>>
  /\ UNCHANGED jobFrame

\* page.exposeFunction or page.evaluate of captureFramesProgrammatically rejects
collectRejected ==
  /\ mpc = "collect"
  /\ evalp = "pending"
  /\ Throw(ERRORS["CANVAS_CAPTURE_FAILED"])
  /\ UNCHANGED jobFrame

\* page.evaluate has resolved: `return frames`, on to captureFramesToGif
framesReturned ==
  /\ mpc = "collect"
  /\ evalp = "resolved"
  /\ handed' = TRUE
  /\ mpc' = "encode"
  /\ UNCHANGED <<exitCode, thrown, s3, frames, capturing, listening, evalp, encoded, armed>>
  /\ UNCHANGED jobFrame

\* captureFramesToGif: `for (const frame of frames)` takes the next frame of
\* the array as it is now and adds it to the GIF
encodeFrame ==
  /\ mpc = "encode"
  /\ encoded < frames
  /\ \E ok \in BOOLEAN :
       IF ok THEN /\ encoded' = encoded + 1
                  /\ UNCHANGED <<mpc, exitCode, thrown, s3, frames, capturing, listening,
                                 evalp, handed, armed>>
             ELSE Throw(ERRORS["CANVAS_CAPTURE_FAILED"])
  /\ UNCHANGED jobFrame

\* the iteration is at the end of the array: gif.finish()
gifFinished ==
  /\ mpc = "encode"
  /\ encoded = frames
  /\ mpc' = "features"
  /\ UNCHANGED <<exitCode, thrown, s3, gifState>>
  /\ UNCHANGED jobFrame

\* the features are read from the page; a failure is logged and leaves []
featuresExtracted ==
  /\ mpc = "features"
  /\ mpc' = "putPreview"
  /\ UNCHANGED <<exitCode, thrown, s3, gifState>>
  /\ UNCHANGED jobFrame

\* the PutObjectCommand of the preview has settled
previewPut ==
  /\ mpc = "putPreview"
  /\ \E ok \in BOOLEAN :
       IF ok THEN /\ s3' = s3 \cup {PreviewKey(opts.gif)}
                  /\ mpc' = "putFeatures"
                  /\ UNCHANGED <<exitCode, thrown, gifState>>
             ELSE Throw("Error")
  /\ UNCHANGED jobFrame

\* the PutObjectCommand of the features has settled: process.exit(0) follows
featuresPut ==
  /\ mpc = "putFeatures"
  /\ \E ok \in BOOLEAN :
       IF ok THEN /\ s3' = s3 \cup {FeaturesKey}
                  /\ exitCode' = <<0>>
                  /\ mpc' = "exited"
                  /\ UNCHANGED <<thrown, gifState>>
             ELSE Throw("Error")
  /\ UNCHANGED jobFrame

\* the capture job is run with any options
CaptureInit ==
  /\ EngineOnly
  /\ opts \in OptsSet
  /\ CaptureStart

CaptureNext ==
  \/ mainStarted
  \/ browserReady
  \/ pageLoaded
  \/ previewFired
  \/ previewRejected
  \/ sleepOver
  \/ shotTaken
  \/ timedFrame
  \/ \E isLastFrame \in BOOLEAN : captureFrameEvent(isLastFrame)
  \/ \E i \in 1..MaxCapturing : captureFrameDone(i)
  \/ \E i \in 1..MaxCapturing : captureFrameFailed(i)
  \/ delayMaxFired
  \/ collectRejected
  \/ framesReturned
  \/ encodeFrame
  \/ gifFinished
  \/ featuresExtracted
  \/ previewPut
  \/ featuresPut

CaptureSpec == CaptureInit /\ [][CaptureNext]_vars

\* every timer fires, and a resolved page.evaluate is received
CaptureLiveSpec ==
  /\ CaptureSpec
  /\ WF_vars(sleepOver)
  /\ WF_vars(delayMaxFired)
  /\ WF_vars(framesReturned)

ParamsSet ==
  {p \in [gpu : BOOLEAN, priority : BOOLEAN, withFeatures : BOOLEAN,
           captureSettings : {ViewportSettings, NoResolutionSettings}] :
     /\ p.gpu => ~p.withFeatures
     /\ ~p.gpu => ~p.priority
     /\ p.captureSettings = NoResolutionSettings => ~p.priority /\ ~p.withFeatures}

Next ==
  \/ \E r \in Reqs, p \in ParamsSet : runJobCalled(r, p)
  \/ \E r \in Reqs : addJobSubmitted(r)
  \/ \E r \in Reqs : addJobRejected(r)
  \/ \E f \in fetching : s3PreviewReturned(f)
  \/ \E f \in fetching : s3FeaturesReturned(f)
  \/ \E f \in fetching : s3Failed(f)
  \/ loopStart
  \/ loopCancelReturned
  \/ loopCancelThrew
  \/ loopListReturned
  \/ loopListPriorityReturned
  \/ loopListThrew
  \/ \E j \in Reqs : batchProgress(j)
  \/ Tick
  \/ \E r \in Reqs : noGpuCaptureReturned(r)
  \/ \E r \in Reqs : noGpuFeaturesReturned(r)
  \/ \E r \in Reqs : noGpuFailed(r)

Spec == Init /\ [][Next]_vars

\* the queued lane alone: every runJob call has captureSettings.gpu set
NextGpu ==
  \/ \E r \in Reqs, p \in {q \in ParamsSet : q.gpu} : runJobCalled(r, p)
  \/ \E r \in Reqs : addJobSubmitted(r)
  \/ \E r \in Reqs : addJobRejected(r)
  \/ \E f \in fetching : s3PreviewReturned(f)
  \/ \E f \in fetching : s3FeaturesReturned(f)
  \/ \E f \in fetching : s3Failed(f)
  \/ loopStart
  \/ loopCancelReturned
  \/ loopCancelThrew
  \/ loopListReturned
  \/ loopListPriorityReturned
  \/ loopListThrew
  \/ \E j \in Reqs : batchProgress(j)
  \/ Tick

GpuSpec == Init /\ [][NextGpu]_vars

\* the route and the submission of the queued lane, without the loop
NextDispatch ==
  \/ \E r \in Reqs, b \in BodySet : routeExtract(r, b)
  \/ \E r \in Reqs : routeSettled(r)
  \/ \E r \in Reqs : addJobSubmitted(r)
  \/ \E r \in Reqs : addJobRejected(r)

DispatchSpec == Init /\ [][NextDispatch]_vars

\* the route over the queued lane
NextRoute ==
  \/ \E r \in Reqs, b \in {c \in BodySet : ~c.withFeatures} : routeExtract(r, b)
  \/ \E r \in Reqs : routeSettled(r)
  \/ \E r \in Reqs : addJobSubmitted(r)
  \/ \E r \in Reqs : addJobRejected(r)
  \/ \E f \in fetching : s3PreviewReturned(f)
  \/ \E f \in fetching : s3FeaturesReturned(f)
  \/ \E f \in fetching : s3Failed(f)
  \/ loopStart
  \/ loopCancelReturned
  \/ loopCancelThrew
  \/ loopListReturned
  \/ loopListPriorityReturned
  \/ loopListThrew
  \/ \E j \in Reqs : batchProgress(j)
  \/ Tick

RouteSpec == Init /\ [][NextRoute]_vars

\* ------------------------------------------------------------------ claims
\* request r has a waiter in the list
HasWaiter(r) == \E i \in 1..Len(jobs) : jobs[i].resolve = r

\* the sweep of the running loop is over
SweepDone == lpc \in {"listStd", "listPriority"}

\* C1: the continuation of every request of the queued lane is invoked
\* exactly once: never twice, and never left uninvoked.  A request whose
\* waiter is in the list of a loop that no longer runs is left uninvoked for
\* ever, since only the loop resolves waiters.
C1_ExactlyOnce ==
  \A r \in Reqs :
    /\ Len(calls[r]) <= 1
    /\ ~(HasWaiter(r) /\ calls[r] = <<>> /\ lpc = "dead")

\* C2: a queued request is resolved no later than the cycle that follows its
\* age reaching the ceiling, whatever the outcome of the external calls: in
\* no state is a request unresolved while the cycle that found it expired has
\* left its sweep, or while it is expired and no cycle will follow.
C2_ResolvedByCeiling ==
  \A i \in 1..Len(jobs) :
    calls[jobs[i].resolve] = <<>> =>
      /\ SweepDone => ~Expired(jobs[i], now)
      /\ lpc = "dead" => ~Expired(jobs[i], clock)

\* C3: the promise of runJob is pending as long as the continuation was not
\* invoked, and from then on it is fulfilled with the data of the resolution
\* if its type is success and rejected with its error otherwise; the
\* continuation is invoked at most once.
C3_PromiseFollowsContinuation ==
  \A r \in Reqs :
    /\ Len(calls[r]) <= 1
    /\ calls[r] = <<>> => promise[r].state = "pending"
    /\ calls[r] # <<>> =>
         IF calls[r][1].type = "success"
           THEN promise[r].state = "fulfilled" /\ promise[r].data = calls[r][1].data
           ELSE promise[r].state = "rejected" /\ promise[r].error = calls[r][1].error

C3_Witness ==
  \E r, q \in Reqs : promise[r].state = "fulfilled" /\ promise[q].state = "rejected"

\* C4: every runJob call invokes addJob on exactly one lane, JobsGPU when
\* captureSettings.gpu is true and JobsNoGPU when it is false, and only that
\* lane works on the request.
C4_ExactlyOneLane ==
  \A r \in Reqs :
    /\ pc[r] = "idle" => laneCalls[r] = <<>>
    /\ pc[r] # "idle" /\ params[r].gpu =>
         laneCalls[r] = <<"JobsGPU">> /\ pc[r] \in {"submit", "returned"}
    /\ pc[r] # "idle" /\ ~params[r].gpu =>
         /\ laneCalls[r] = <<"JobsNoGPU">>
         /\ pc[r] \in {"capture", "features", "returned"}
         /\ batch[r] = NoJob /\ ~HasWaiter(r)

C4_Witness ==
  \E r, q \in Reqs :
    /\ laneCalls[r] = <<"JobsGPU">> /\ params[r].gpu
    /\ laneCalls[q] = <<"JobsNoGPU">> /\ ~params[q].gpu

\* C5: when the submission of addJob errors or returns no job id, the step
\* in which addJob returns resolves the continuation with
\* Failure{JOB_QUEUE_FAILED} and leaves the waiting list as it was.
C5_SubmitFailure ==
  [][\A r \in Reqs :
       (pc[r] = "submit" /\ pc'[r] = "returned" /\ batch'[r] = NoJob) =>
         /\ jobs' = jobs
         /\ calls[r] = <<>>
         /\ calls'[r] = <<[type |-> "failure", error |-> "JOB_QUEUE_FAILED", data |-> <<>>]>>]_vars

C5_Witness ==
  \E r \in Reqs :
    /\ params[r].gpu /\ pc[r] = "returned" /\ batch[r] = NoJob
    /\ calls[r] = <<Failure(JOB_QUEUE_FAILED)>>
    /\ Len(jobs) = 1

\* C6: when the submission of addJob returns a job id, the step in which
\* addJob returns appends exactly one waiter, carrying that job id, the
\* continuation of the request and the time of the step, and does not invoke
\* the continuation.
C6_SubmitSuccess ==
  [][\A r \in Reqs :
       (pc[r] = "submit" /\ pc'[r] = "returned" /\ batch'[r] # NoJob) =>
         /\ Len(jobs') = Len(jobs) + 1
         /\ SubSeq(jobs', 1, Len(jobs)) = jobs
         /\ jobs'[Len(jobs')] = [id |-> r, resolve |-> r, started |-> clock]
         /\ calls'[r] = <<>>]_vars

C6_Witness ==
  \E r \in Reqs :
    /\ pc[r] = "returned" /\ calls[r] = <<>>
    /\ Len(jobs) = 2 /\ jobs[2].id = r /\ jobs[2].started = HOUR_MS

\* C7: every waiter that is expired when a cycle begins is cancelled, removed
\* and resolved with Failure{JOB_EXECUTION_FAILED} by that cycle's sweep,
\* also when several are expired: once the sweep is over, no waiter of the
\* list is expired at the cycle's `now`.
C7_SweepTakesAllExpired ==
  SweepDone => \A i \in 1..Len(jobs) : ~Expired(jobs[i], now)

\* C8: a failure of the cancel command of the sweep does not prevent the
\* timed-out waiter from being removed and resolved with
\* Failure{JOB_EXECUTION_FAILED}, nor the rest of the cycle from running.
C8_CancelFailureIgnored ==
  \A r \in Reqs :
    (\E k \in 1..Len(cancelLog[r]) : ~cancelLog[r][k]) =>
      /\ ~HasWaiter(r)
      /\ calls[r] = <<Failure(JOB_EXECUTION_FAILED)>>

\* C9: a cycle is running or scheduled in every state: every cycle ends by
\* scheduling the next one, whether or not an external call failed.
C9_LoopForever == lpc \in {"scheduled", "cancel", "listStd", "listPriority"}

\* the sextets of the base64 text of PngBytes ("iVBORw0KGgo=") and of
\* RawBytes ("AQI=")
ExpectedBase64(buffer) ==
  IF buffer = PngBytes THEN <<34, 21, 1, 14, 17, 48, 52, 10, 6, 32, 40, 64>>
  ELSE <<0, 16, 8, 64>>

ExpectedFeatures(text) == IF text = "{}" THEN {} ELSE {<<"seed", 1>>}

Parses(text) == text \in {"{}", "{\"seed\":1}"}

\* a waiter of the list whose job the listing of queue q shows as SUCCEEDED
ListedSucceeded(w, q) == batch[w.id].queue = q /\ batch[w.id].status = "SUCCEEDED"

\* the matching passes remove every waiter listed as SUCCEEDED
SucceededRemoved ==
  /\ (lpc = "listStd" /\ lpc' = "listPriority") =>
       \A i \in 1..Len(jobs) : ListedSucceeded(jobs[i], QUEUE_ARN) =>
         ~(\E k \in 1..Len(jobs') : jobs'[k] = jobs[i])
  /\ (lpc = "listPriority" /\ lpc' = "scheduled") =>
       \A i \in 1..Len(jobs) : ListedSucceeded(jobs[i], QUEUE_PRIORITY_ARN) =>
         ~(\E k \in 1..Len(jobs') : jobs'[k] = jobs[i])

\* the request whose preview and features were both read, the features being
\* JSON, is out of the list and resolved once, with the parsed features and
\* with a captureBase64 made of `prefix` and the base64 text of the preview
ResolvedWithArtifacts(r, prefix) ==
  (fetched[r] # <<>> /\ Parses(fetched[r][1].features)) =>
    /\ ~HasWaiter(r)
    /\ calls[r] =
         <<[type |-> "success", error |-> "",
            data |-> <<[captureBase64 |->
                          [prefix |-> prefix,
                           base64 |-> ExpectedBase64(fetched[r][1].preview)],
                        features |-> <<ExpectedFeatures(fetched[r][1].features)>>]>>]>>

\* C10 as stated: a waiter listed as SUCCEEDED whose two artifacts are
\* retrievable is removed and resolved with Success, captureBase64 being the
\* base64 encoding of the preview bytes and features the parsed features.json.
C10_PlainBase64 ==
  /\ [](\A r \in Reqs : ResolvedWithArtifacts(r, ""))
  /\ [][SucceededRemoved]_vars

\* C10 as amended: captureBase64 is the base64 encoding of the preview bytes
\* behind the prefix `data:<mime>;base64,` when a file type is sniffed from
\* the bytes (as for a PNG), and the bare base64 encoding otherwise.
C10_SniffedBase64 ==
  /\ [](\A r \in Reqs :
         ResolvedWithArtifacts(r,
           IF fetched[r] # <<>> /\ fetched[r][1].preview = PngBytes
             THEN "data:image/png;base64," ELSE ""))
  /\ [][SucceededRemoved]_vars

C10_Witness ==
  \E r, q \in Reqs :
    /\ fetched[r] # <<>> /\ fetched[r][1].preview = PngBytes
    /\ calls[r] # <<>> /\ calls[r][1].type = "success"
    /\ fetched[q] # <<>> /\ fetched[q][1].preview = RawBytes
    /\ calls[q] # <<>> /\ calls[q][1].type = "success"

\* request r has a call of jobSuccess suspended in its fetch
HasFetch(r) == \E f \in fetching : f.resolve = r

\* the call f of jobSuccess ends in this step without both artifacts read
\* and the features parsed
FetchFails(f) ==
  /\ f \in fetching
  /\ ~(\E g \in fetching' : g.resolve = f.resolve)
  /\ ~(fetched'[f.resolve] # <<>> /\ Parses(fetched'[f.resolve][1].features))

\* C11: when the retrieval of the artifacts of a waiter matched as SUCCEEDED
\* fails (a fetch or a stream errors, a body is missing, features.json does
\* not parse), that step resolves the continuation with
\* Failure{JOB_EXECUTION_FAILED}, the waiter stays out of the list and no
\* fetch is started again; a resolved request has no fetch under way.
C11_FetchFailure ==
  /\ [][\A f \in fetching : FetchFails(f) =>
          /\ calls[f.resolve] = <<>>
          /\ calls'[f.resolve] = <<[type |-> "failure", error |-> "JOB_EXECUTION_FAILED",
                                    data |-> <<>>]>>
          /\ jobs' = jobs]_vars
  /\ [](\A r \in Reqs : calls[r] # <<>> => ~HasFetch(r) /\ ~HasWaiter(r))

\* both ways of failing happened: features.json read but not JSON for one
\* request, a failed fetch for the other, both jobs having SUCCEEDED
C11_Witness ==
  \E r, q \in Reqs :
    /\ batch[r].status = "SUCCEEDED" /\ batch[q].status = "SUCCEEDED"
    /\ fetched[r] # <<>> /\ ~Parses(fetched[r][1].features)
    /\ calls[r] = <<Failure(JOB_EXECUTION_FAILED)>>
    /\ fetched[q] = <<>> /\ clock = 0
    /\ calls[q] = <<Failure(JOB_EXECUTION_FAILED)>>

\* the two matching passes of a cycle, as steps
StdPass == lpc = "listStd" /\ lpc' = "listPriority"
PriorityPass == lpc = "listPriority" /\ lpc' = "scheduled"

\* the listing of queue q shows the job of waiter w with status st
Listed(w, q, st) == batch[w.id].queue = q /\ batch[w.id].status = st

\* the step is the matching pass whose listing shows the job of w with st
MatchedAs(w, st) ==
  \/ StdPass /\ Listed(w, QUEUE_ARN, st)
  \/ PriorityPass /\ Listed(w, QUEUE_PRIORITY_ARN, st)

InList(js, w) == \E k \in 1..Len(js) : js[k] = w

\* C12: the matching pass whose listing (of either queue) shows the job of a
\* waiter as FAILED removes that waiter from the list and resolves its
\* continuation, until then uninvoked, with Failure{JOB_EXECUTION_FAILED}.
C12_FailedResolved ==
  [][\A i \in 1..Len(jobs) : MatchedAs(jobs[i], "FAILED") =>
       /\ ~InList(jobs', jobs[i])
       /\ calls[jobs[i].resolve] = <<>>
       /\ calls'[jobs[i].resolve] = <<[type |-> "failure", error |-> "JOB_EXECUTION_FAILED",
                                       data |-> <<>>]>>]_vars

\* one job of each queue was listed as FAILED and resolved, before any
\* waiter could time out
C12_Witness ==
  \E r, q \in Reqs :
    /\ clock = 0 /\ jobs = <<>>
    /\ batch[r] = [queue |-> QUEUE_ARN, status |-> "FAILED"]
    /\ batch[q] = [queue |-> QUEUE_PRIORITY_ARN, status |-> "FAILED"]
    /\ calls[r] = <<Failure(JOB_EXECUTION_FAILED)>>
    /\ calls[q] = <<Failure(JOB_EXECUTION_FAILED)>>

\* the listing returned in this step shows the job of waiter w
ListedNow(w) ==
  \E st \in {"RUNNING", "SUCCEEDED", "FAILED"} : MatchedAs(w, st)

\* C13: a waiter that is not expired for the running cycle and whose job the
\* listing returned in a step does not show is still in the list after the
\* step, its continuation uninvoked: so it is through the sweep and both
\* matching passes of a cycle in whose listings it does not appear.
C13_UnlistedStays ==
  [][\A i \in 1..Len(jobs) :
       ((lpc = "cancel" => ~Expired(jobs[i], now)) /\ ~ListedNow(jobs[i])) =>
         /\ InList(jobs', jobs[i])
         /\ calls[jobs[i].resolve] = <<>>
         /\ calls'[jobs[i].resolve] = <<>>]_vars

\* a cycle is over that matched and resolved a FAILED job while the job of
\* the waiter still in the list was not shown by the listings
C13_Witness ==
  \E r \in Reqs :
    /\ lpc = "scheduled" /\ clock = 0
    /\ batch[r].status = "FAILED" /\ calls[r] = <<Failure(JOB_EXECUTION_FAILED)>>
    /\ Len(jobs) = 1 /\ jobs[1].id < r
    /\ batch[jobs[1].id].status = "UNLISTED"
    /\ calls[jobs[1].resolve] = <<>>

\* C14: a matching pass whose listing shows the job of a waiter with a
\* non-terminal status leaves that waiter in the list as it is and does not
\* invoke its continuation; the sweep leaves a waiter that is not expired
\* where it is.
C14_RunningStays ==
  [][\A i \in 1..Len(jobs) :
       (MatchedAs(jobs[i], "RUNNING") \/ (lpc = "cancel" /\ ~Expired(jobs[i], now))) =>
         /\ InList(jobs', jobs[i])
         /\ calls'[jobs[i].resolve] = <<>>
         /\ ~(\E f \in fetching' : f.resolve = jobs[i].resolve)]_vars

\* a cycle is over that matched and resolved a FAILED job while the job of
\* the waiter still in the list was running
C14_Witness ==
  \E r \in Reqs :
    /\ lpc = "scheduled" /\ clock = 0
    /\ batch[r].status = "FAILED" /\ calls[r] = <<Failure(JOB_EXECUTION_FAILED)>>
    /\ Len(jobs) = 1 /\ jobs[1].id < r
    /\ batch[jobs[1].id] = [queue |-> batch[r].queue, status |-> "RUNNING"]
    /\ calls[jobs[1].resolve] = <<>>

\* C15: no waiter of the list has had its continuation invoked, and a request
\* whose continuation was invoked stays as it is: the continuation is not
\* invoked again, the promise keeps its outcome, and the request has no
\* waiter in the list and no fetch under way, in that state and ever after.
C15_NoWaiterOutlivesResolution ==
  /\ [](\A i \in 1..Len(jobs) : calls[jobs[i].resolve] = <<>>)
  /\ [](\A r \in Reqs : calls[r] # <<>> => ~HasWaiter(r) /\ ~HasFetch(r))
  /\ [][\A r \in Reqs : calls[r] # <<>> =>
          calls'[r] = calls[r] /\ promise'[r] = promise[r]]_vars

\* a request was resolved by the sweep while another waiter is in the list
C15_Witness ==
  \E r \in Reqs :
    /\ calls[r] # <<>> /\ batch[r] # NoJob /\ cancelLog[r] = <<TRUE>>
    /\ Len(jobs) = 1 /\ jobs[1].resolve # r

\* C16: the job ids of the waiters of the list are pairwise distinct.
C16_DistinctIds ==
  \A i, k \in 1..Len(jobs) : i # k => jobs[i].id # jobs[k].id

\* two waiters are in the list
C16_Witness == Len(jobs) = 2 /\ jobs[1].id # jobs[2].id

\* a call of loop is suspended at one of its awaits
LoopRunning == lpc \in {"cancel", "listStd", "listPriority"}

\* C17: the calls of loop in progress and the pending timers that will start
\* one are never more than one in all, and a timer is set only by the step
\* that ends a call of loop: after the priority pass, or after a sweep that
\* left the list empty.
C17_OneCycle ==
  /\ [](timers + (IF LoopRunning THEN 1 ELSE 0) <= 1)
  /\ [][timers' > timers =>
          /\ LoopRunning /\ lpc' = "scheduled"
          /\ lpc = "listPriority" \/ jobs' = <<>>]_vars

\* a second cycle is under way, the first one having resolved a request
C17_Witness ==
  /\ lpc = "listPriority" /\ timers = 0
  /\ \E r \in Reqs : batch[r].status = "FAILED" /\ calls[r] # <<>> /\ clock = 0

\* the waiter of request r was pushed and is no longer in the list
Removed(r) == pc[r] = "returned" /\ batch[r] # NoJob /\ ~HasWaiter(r)

\* C18: removal and resolution go together: while a cycle that started has
\* not reached its matching passes, every waiter removed (by an earlier
\* cycle) had its continuation invoked and no fetch of artifacts (started by
\* an earlier cycle) is pending.
C18_RemovedIsResolved ==
  lpc \in {"cancel", "listStd"} =>
    /\ fetching = {}
    /\ \A r \in Reqs : Removed(r) => calls[r] # <<>>

\* the step acts on waiter w itself: the sweep reached it and it is expired,
\* or the listing returned shows its job as ended
OwnReason(w) ==
  \/ lpc = "cancel" /\ idx \in 1..Len(jobs) /\ jobs[idx] = w /\ Expired(w, now)
  \/ MatchedAs(w, "SUCCEEDED")
  \/ MatchedAs(w, "FAILED")

\* C19: a waiter pushed while a cycle is suspended at a cancel or a listing
\* goes to the end of the list, which is otherwise untouched, as are the
\* iterator and the `now` of the cycle; and a waiter leaves the list or is
\* resolved only in a step that acts on that very waiter, the waiters that
\* stay keeping their order.
C19_InsertionIsSafe ==
  /\ [][\A r \in Reqs :
          (LoopRunning /\ pc[r] = "submit" /\ pc'[r] = "returned" /\ batch'[r] # NoJob) =>
            /\ jobs' = Append(jobs, [id |-> r, resolve |-> r, started |-> clock])
            /\ lpc' = lpc /\ idx' = idx /\ now' = now
            /\ calls' = calls]_vars
  /\ [][\A i \in 1..Len(jobs) :
          (~InList(jobs', jobs[i]) \/ calls'[jobs[i].resolve] # <<>>) => OwnReason(jobs[i])]_vars
  /\ [][Len(jobs') <= Len(jobs) =>
          \A i, k \in 1..Len(jobs') :
            i < k => /\ InList(jobs, jobs'[i]) /\ InList(jobs, jobs'[k])
                     /\ IndexOf(jobs, jobs'[i]) < IndexOf(jobs, jobs'[k])]_vars

\* a waiter pushed after the cycle began is in the list, past the matching
\* pass that removed and resolved another one
C19_Witness ==
  /\ lpc = "listPriority"
  /\ \E i \in 1..Len(jobs) : jobs[i].started > now /\ calls[jobs[i].resolve] = <<>>
  /\ \E r \in Reqs : batch[r].status = "FAILED" /\ calls[r] = <<Failure(JOB_EXECUTION_FAILED)>>

\* C20: a request addJob submits is submitted by one SubmitJobCommand, with
\* the one job definition, to the priority queue when the request has
\* priority and to the standard queue when it has not; the job the service
\* holds for the request is in that queue and in no other.  Every request of
\* the queued lane whose command could be built is submitted.
C20_QueueByPriority ==
  \A r \in Reqs :
    /\ pc[r] = "idle" => submitted[r] = <<>>
    /\ Len(submitted[r]) <= 1
    /\ batch[r] # NoJob => submitted[r] # <<>>
    /\ (pc[r] # "idle" /\ params[r].gpu /\ params[r].captureSettings.resolution # <<>>) =>
         submitted[r] # <<>>
    /\ submitted[r] # <<>> =>
         /\ submitted[r][1].jobDefinition = "AWS_BATCH_GPU_JOB_DEF_ARN"
         /\ submitted[r][1].jobQueue =
              (IF params[r].priority THEN "AWS_BATCH_GPU_JOB_QUEUE_PRIORITY_ARN"
                                     ELSE "AWS_BATCH_GPU_JOB_QUEUE_ARN")
         /\ batch[r] # NoJob => batch[r].queue = submitted[r][1].jobQueue

\* a request with priority and one without were both submitted
C20_Witness ==
  \E r, q \in Reqs :
    /\ params[r].priority /\ batch[r].queue = QUEUE_PRIORITY_ARN
    /\ params[q].gpu /\ ~params[q].priority /\ batch[q].queue = QUEUE_ARN

\* C21: every failure a continuation receives, from either lane, carries one
\* of the error kinds UNKNOWN, JOB_QUEUE_FAILED, JOB_EXECUTION_FAILED.
C21_ClosedErrorSet ==
  \A r \in Reqs : \A k \in 1..Len(calls[r]) :
    calls[r][k].type = "failure" =>
      calls[r][k].error \in {"UNKNOWN", "JOB_QUEUE_FAILED", "JOB_EXECUTION_FAILED"}

\* C22: a request of the synchronous lane whose capture or feature call
\* failed is resolved with a failure whose error kind is UNKNOWN.
C22_NoGpuFailureUnknown ==
  \A r \in Reqs :
    (laneCalls[r] = <<"JobsNoGPU">> /\ posted[r] # <<>> /\ calls[r] # <<>>
       /\ calls[r][1].type = "failure") =>
      calls[r][1].error = "UNKNOWN"

\* request r was resolved with a failure of kind e
FailedWith(r, e) ==
  calls[r] # <<>> /\ calls[r][1].type = "failure" /\ calls[r][1].error = e

\* JOB_EXECUTION_FAILED has its cause: the request had a waiter, and its job
\* was listed FAILED, or timed out, or was listed SUCCEEDED without both
\* artifacts being retrieved
ExecutionFailedHasCause(r) ==
  /\ batch[r] # NoJob
  /\ \/ batch[r].status = "FAILED"
     \/ cancelLog[r] = <<TRUE>>
     \/ /\ batch[r].status = "SUCCEEDED"
        /\ fetched[r] = <<>> \/ ~Parses(fetched[r][1].features)

C24_NoGpuOnce ==
  /\ [](\A r \in Reqs : laneCalls[r] = <<"JobsNoGPU">> =>
          /\ pc[r] = "returned" => Len(calls[r]) = 1
          /\ pc[r] # "returned" => calls[r] = <<>>
          /\ ~HasWaiter(r) /\ batch[r] = NoJob /\ submitted[r] = <<>>
          /\ posted[r] \in {<<>>, <<"capture">>, <<"capture", "features">>}
          /\ posted[r] = <<"capture", "features">> => params[r].withFeatures)
  /\ [][\A r \in Reqs :
          /\ posted'[r] # posted[r] /\ posted[r] # <<>> =>
               pc[r] = "capture" /\ pc'[r] = "features" /\ calls'[r] = <<>>
          /\ calls[r] # <<>> => posted'[r] = posted[r]]_vars

\* one call resolved with success after both posts, the other with a failure
\* after its capture post
C24_Witness ==
  \E r, q \in Reqs :
    /\ posted[r] = <<"capture", "features">> /\ pc[r] = "returned"
    /\ calls[r] # <<>> /\ calls[r][1].type = "success"
    /\ posted[q] = <<"capture">> /\ pc[q] = "returned"
    /\ calls[q] # <<>> /\ calls[q][1].type = "failure"

\* command c holds the option opt
HasOption(c, opt) == \E i \in 1..Len(c) : c[i] = opt

\* command c holds the option opt followed by the value val
HasOptionValue(c, opt, val) == \E i \in 1..(Len(c) - 1) : c[i] = opt /\ c[i + 1] = val

\* C25: the command addJob builds holds --selector, followed by
\* canvasSelector, exactly when the mode is CANVAS; --resX and --resY,
\* followed by resolution.x and resolution.y, when the mode is VIEWPORT;
\* --trigger, followed by triggerMode, exactly when triggerMode is set; and
\* --delay, followed by delay, exactly when delay is a number (not
\* undefined, not null, not NaN; 0 is a number).
C25_CommandArguments ==
  (built # <<>> /\ ~built[1].threw) =>
    LET c == built[1].command
    IN /\ SubSeq(c, 1, 6) = <<"node", "index.js", "--url", settings.url, "--mode", settings.mode>>
       /\ HasOption(c, "--selector") <=> settings.mode = "CANVAS"
       /\ settings.mode = "CANVAS" => HasOptionValue(c, "--selector", settings.canvasSelector)
       /\ settings.mode = "VIEWPORT" =>
            /\ HasOptionValue(c, "--resX", "700")
            /\ HasOptionValue(c, "--resY", "2000")
       /\ HasOption(c, "--trigger") <=> settings.triggerMode \in {"DELAY", "FN_TRIGGER"}
       /\ settings.triggerMode # "" => HasOptionValue(c, "--trigger", settings.triggerMode)
       /\ HasOption(c, "--delay") <=> settings.delay.kind \notin {"undefined", "null", "NaN"}
       /\ settings.delay = [kind |-> "number", value |-> 0] => HasOptionValue(c, "--delay", "0")
       /\ settings.delay = [kind |-> "number", value |-> 2000] =>
            HasOptionValue(c, "--delay", "2000")

\* the command of a canvas capture with every option was built
C25_Witness ==
  /\ built # <<>>
  /\ built[1].command =
       <<"node", "index.js", "--url", "u", "--mode", "CANVAS", "--selector", "canvas",
         "--trigger", "FN_TRIGGER", "--delay", "0">>

\* C26: the window of the created-after filter of the listings, from `after`
\* to the time the filter is made, is at least as long as the interval
\* between two cycles, so that a job created since the cycle before is
\* inside it.
C26_LookbackCoversInterval ==
  after # <<>> => dateNow - after[1] >= FETCH_JOB_STATUS_INTERVAL_MS(env)

\* C27: the sweep of a cycle is over before its listings are asked for, and a
\* waiter that is expired at the cycle's `now` is taken by the sweep: no
\* matching pass of that cycle finds it in the list with its job listed as
\* SUCCEEDED or FAILED.
C27_ExpiredNeverMatched ==
  [][\A i \in 1..Len(jobs) :
       Expired(jobs[i], now) =>
         ~(MatchedAs(jobs[i], "SUCCEEDED") \/ MatchedAs(jobs[i], "FAILED"))]_vars

\* where a request that was given a job id stands: its waiter in the list, a
\* call of jobSuccess fetching its artifacts, its continuation invoked
Situations(r) ==
  {s \in {"waiting", "fetching", "resolved"} :
     \/ s = "waiting" /\ HasWaiter(r)
     \/ s = "fetching" /\ HasFetch(r)
     \/ s = "resolved" /\ calls[r] # <<>>}

\* C28: a request whose submission returned a job id is in exactly one of
\* three situations: its waiter is in the list, or its waiter was removed
\* and the fetch of its artifacts is in flight, or its continuation has been
\* invoked. A waiter leaves the list only in the step that decides its own
\* resolution: the pass that lists its job as SUCCEEDED (its fetch starts) or
\* as FAILED, or the sweep cancelling it as expired (its continuation is
\* invoked with Failure{JOB_EXECUTION_FAILED}).
C28_Conservation ==
  /\ [](\A r \in Reqs : batch[r] # NoJob => Cardinality(Situations(r)) = 1)
  /\ [][\A i \in 1..Len(jobs) :
          ~InList(jobs', jobs[i]) =>
            LET w == jobs[i]
            IN \/ /\ MatchedAs(w, "SUCCEEDED")
                  /\ Fetch(w, "preview") \in fetching'
                  /\ calls'[w.resolve] = <<>>
               \/ /\ MatchedAs(w, "FAILED") \/ (lpc = "cancel" /\ idx = i /\ Expired(w, now))
                  /\ calls[w.resolve] = <<>>
                  /\ calls'[w.resolve] = <<Failure(JOB_EXECUTION_FAILED)>>
                  /\ ~(\E f \in fetching' : f.resolve = w.resolve)]_vars

\* one request has its fetch in flight, its waiter removed, while the
\* continuation of another, which had a job id too, has been invoked
C28_Witness ==
  \E r, q \in Reqs :
    /\ HasFetch(r) /\ ~HasWaiter(r) /\ calls[r] = <<>>
    /\ batch[q] # NoJob /\ ~HasWaiter(q) /\ ~HasFetch(q) /\ calls[q] # <<>>

\* the continuation of r was invoked with a Success
Succeeded(r) == calls[r] # <<>> /\ calls[r][1].type = "success"

\* C29: a continuation of the queued lane is invoked with Success only for a
\* request whose own job is SUCCEEDED in the batch service, out of a fetch
\* that the pass listing that job as SUCCEEDED started under that job's id
\* and that read both objects; the data is made of what that fetch read.
C29_SuccessIsOwn ==
  /\ [](\A r \in Reqs :
          Succeeded(r) =>
            /\ batch[r] # NoJob /\ batch[r].status = "SUCCEEDED"
            /\ Len(fetched[r]) = 1
            /\ calls[r][1].data[1].captureBase64.base64 = ExpectedBase64(fetched[r][1].preview)
            /\ calls[r][1].data[1].features = <<ExpectedFeatures(fetched[r][1].features)>>)
  /\ [](\A f \in fetching :
          /\ batch[f.resolve] # NoJob /\ f.id = f.resolve
          /\ batch[f.id].status = "SUCCEEDED")
  /\ [][\A r \in Reqs :
          /\ (\E f \in fetching' \ fetching : f.resolve = r /\ f.stage = "preview") =>
               \E i \in 1..Len(jobs) :
                 jobs[i].resolve = r /\ jobs[i].id = r /\ MatchedAs(jobs[i], "SUCCEEDED")
          /\ (Succeeded(r)' /\ ~Succeeded(r)) =>
               /\ [id |-> r, resolve |-> r, stage |-> "features"] \in fetching \ fetching'
               /\ fetched[r] = <<>>]_vars

\* a request was resolved with Success while the job of another was listed as
\* FAILED and resolved with a Failure
C29_Witness ==
  \E r, q \in Reqs :
    /\ Succeeded(r) /\ batch[r].status = "SUCCEEDED" /\ fetched[r] # <<>>
    /\ batch[q] # NoJob /\ batch[q].status = "FAILED" /\ fetched[q] = <<>>
    /\ calls[q] = <<Failure(JOB_EXECUTION_FAILED)>>

\* C30: a CancelJobCommand is sent only by the sweep, for the job id of a
\* waiter that is in the list, unresolved, and at least one hour
\* (3600000 ms) old at the cycle's `now`; at most one is sent per job id,
\* and the job of a waiter that a matching pass removed is never cancelled,
\* before or after.
C30_CancelOnlyExpired ==
  /\ [](lpc = "cancel" =>
          /\ idx \in 1..Len(jobs)
          /\ now - jobs[idx].started >= 3600000
          /\ cancelLog[jobs[idx].id] = <<>>
          /\ calls[jobs[idx].resolve] = <<>>)
  /\ [](\A r \in Reqs :
          /\ Len(cancelLog[r]) <= 1
          /\ cancelLog[r] # <<>> =>
               /\ batch[r] # NoJob /\ fetched[r] = <<>> /\ ~HasFetch(r)
               /\ calls[r] \in {<<>>, <<Failure(JOB_EXECUTION_FAILED)>>})
  /\ [][/\ \A r \in Reqs :
            cancelLog'[r] # cancelLog[r] =>
              /\ lpc = "cancel" /\ jobs[idx].id = r
              /\ now - jobs[idx].started >= 3600000
          /\ \A i \in 1..Len(jobs) :
               (StdPass \/ PriorityPass) /\ ~InList(jobs', jobs[i]) =>
                 cancelLog'[jobs[i].id] = <<>>]_vars

\* the job of an expired waiter was cancelled once, after a matching pass had
\* resolved another request, whose job was never cancelled
C30_Witness ==
  \E r, q \in Reqs :
    /\ cancelLog[r] = <<TRUE>> /\ calls[r] = <<Failure(JOB_EXECUTION_FAILED)>>
    /\ cancelLog[q] = <<>> /\ batch[q] # NoJob /\ batch[q].status = "FAILED"
    /\ calls[q] = <<Failure(JOB_EXECUTION_FAILED)>>

C32_RouteAlwaysQueued ==
  \A r \in Reqs :
    /\ pc[r] # "idle" =>
         /\ rpc[r] # "idle"
         /\ params[r].gpu
         /\ laneCalls[r] = <<"JobsGPU">>
         /\ Len(submitted[r]) = 1 /\ posted[r] = <<>>
    /\ pc[r] = "idle" => laneCalls[r] = <<>> /\ submitted[r] = <<>> /\ posted[r] = <<>>

\* a request whose body says gpu: false waits in the list of the queued lane
C32_Witness ==
  \E r \in Reqs :
    /\ ~body[r].gpu /\ rpc[r] = "awaiting"
    /\ laneCalls[r] = <<"JobsGPU">> /\ HasWaiter(r)

\* the response of r is the one its handler owes: the data runJob fulfilled
\* with, or status 500 with a member of ExtractError, UNKNOWN standing for a
\* reason that is not a member
RightResponse(r) ==
  LET a == res[r][1]
  IN IF rpc[r] = "done" /\ pc[r] # "idle" /\ promise[r].state = "fulfilled"
       THEN a.status = 200 /\ a.data = promise[r].data
       ELSE /\ a.status = 500
            /\ a.error \in {ExtractError[n] : n \in DOMAIN ExtractError}
            /\ pc[r] = "idle" => a.error = "INVALID_INPUT_PARAMETERS"
            /\ pc[r] # "idle" =>
                 a.error = IF promise[r].error \in DOMAIN ExtractError
                             THEN promise[r].error ELSE "UNKNOWN"

\* the parts of C33 on the number and the content of the responses sent
C33_AtMostOneRightResponse ==
  \A r \in Reqs :
    /\ Len(res[r]) <= 1
    /\ res[r] # <<>> <=> rpc[r] = "done"
    /\ res[r] # <<>> => RightResponse(r)

\* C33: POST /extract sends exactly one response per request, the JobResponse
\* when runJob fulfils and otherwise status 500 with a member of ExtractError
\* (UNKNOWN for any other reason): never two, never a wrong one, and no
\* request is left without a response for ever, as is one that awaits runJob
\* while its waiter is in the list of a loop that no longer runs.
C33_OneResponse ==
  /\ C33_AtMostOneRightResponse
  /\ \A r \in Reqs : ~(rpc[r] = "awaiting" /\ HasWaiter(r) /\ lpc = "dead")


\* ------------------------------------------------------------ C34 (capture job)
\* C34, the part about success: a job that exited with status 0 has stored
\* its preview under {jobId}/preview.png or .gif and its features under
\* {jobId}/features.json, the preview first; the features are stored by no
\* job that does not exit with status 0
C34_SuccessHasArtifacts ==
  /\ exitCode = <<0>> => {PreviewKey(opts.gif), FeaturesKey} \subseteq s3
  /\ FeaturesKey \in s3 => PreviewKey(opts.gif) \in s3 /\ exitCode = <<0>>
  /\ exitCode = <<1>> => thrown # <<>>

\* C34: the job exits with status 0 only after the preview upload and then
\* the features upload have completed, and an error at any step (validation,
\* navigation, trigger wait, capture, either upload) makes it exit with
\* status 1
C34_ExitStatus ==
  /\ C34_SuccessHasArtifacts
  /\ thrown # <<>> => exitCode = <<1>>

\* ------------------------------------------------------------ C35 (GIF frames)
\* C35: the frames collected for the GIF never exceed MAX_FRAMES, and no
\* frame is added to the collection once it was handed to the encoder
C35_FramesWithinMax ==
  /\ [](frames <= MAX_FRAMES)
  /\ [][handed => frames' = frames]_vars

\* C35, what holds: the frames exceed MAX_FRAMES by less than the number of
\* captures that can be in progress at a time
C35_ExcessBelowCapturing == frames < MAX_FRAMES + MaxCapturing

\* ----------------------------------------------------------- C36 (trigger wait)
\* the job waits for its trigger: in waitPreview, or for the frames of
\* captureFramesProgrammatically
Waiting == mpc \in {"waitPreview", "collect"}

\* C36: the wait for the trigger always terminates, for every trigger mode
\* that validation accepts
C36_WaitTerminates == [](Waiting => <>~Waiting)

\* C36, what holds: the wait of DELAY and of FN_TRIGGER_GIF terminates, and
\* that of FN_TRIGGER does unless its page.evaluate rejects
C36_WaitTerminatesUnlessRejected ==
  []((Waiting /\ evalp # "rejected") => <>(~Waiting \/ evalp = "rejected"))


\* ------------------------------------------------ C37 (removeJobFromQueue)
\* jobFailed(w) was called by loop in this step: w.resolve received the
\* failure, in a step that is none of jobSuccess's
JobFailedCalled(r) ==
  /\ calls'[r] = Append(calls[r], Failure(JOB_EXECUTION_FAILED))
  /\ fetching \subseteq fetching'

\* jobSuccess(w) was called in this step: its first fetch is new
JobSuccessCalled(id, r) ==
  \E f \in fetching' \ fetching : f.stage = "preview" /\ f.id = id /\ f.resolve = r

\* the indexes of the waiters a step takes out of the list
Gone == {i \in 1..Len(jobs) : ~InList(jobs', jobs[i])}

\* C37: removeJobFromQueue is called only with a waiter that is in the list,
\* and removes that waiter and no other: the waiters a step takes out of the
\* list are the ones jobFailed or jobSuccess was called with in that step,
\* every such call takes its own waiter out, and the others keep their order
C37_RemovesItsWaiter ==
  [][/\ \A i \in Gone :
          JobFailedCalled(jobs[i].resolve) \/ JobSuccessCalled(jobs[i].id, jobs[i].resolve)
     /\ \A r \in Reqs :
          JobFailedCalled(r) \/ (\E id \in Reqs : JobSuccessCalled(id, r)) =>
            \E i \in Gone : jobs[i].resolve = r
     /\ \A i, j \in (1..Len(jobs)) \ Gone :
          i < j => \E a, b \in 1..Len(jobs') :
                     a < b /\ jobs'[a] = jobs[i] /\ jobs'[b] = jobs[j]]_vars

\* a waiter was failed and taken out of the list while a waiter registered
\* after it stays in
C37_Witness ==
  \E r \in Reqs :
    /\ calls[r] = <<Failure(JOB_EXECUTION_FAILED)>>
    /\ ~HasWaiter(r)
    /\ \E i \in 1..Len(jobs) : jobs[i].resolve > r


\* --------------------------------------------------- C38 (an empty cycle)
\* a step of loop in which the timeout sweep comes to its end
SweepEnded ==
  /\ lpc \in {"scheduled", "cancel"}
  /\ lpc' \in {"scheduled", "listStd"}
  /\ lpc' # lpc

====
